---------------------------- MODULE Spec2Model ----------------------------
(***************************************************************************)
(* Model of backend/analysis.py: the normative classification and          *)
(* aggregation engine of the Virtual Mirror backend.                       *)
(*                                                                         *)
(* Every number the engine computes is a Python float, an IEEE-754 binary64 *)
(* value, and the thresholds of the engine (|z| <= 1.0, |z| <= 2.0,         *)
(* proportion > 0.30, proportion > 0.40) are compared against rounded      *)
(* results.  The model therefore carries binary64 values exactly: a finite  *)
(* double is the record [s, m, e] that stands for (-1)^s * m * 2^e, with m  *)
(* a 53-bit mantissa held in two 27-bit limbs <<hi, lo>>, and every         *)
(* arithmetic operator below rounds to nearest, ties to even, as the       *)
(* hardware does.                                                          *)
(***************************************************************************)
EXTENDS Integers, Sequences, FiniteSets, TLC

-----------------------------------------------------------------------------
(* Two-limb naturals: <<hi, lo>> stands for hi * 2^27 + lo.                *)

LimbBase == 2^27

WZero == <<0, 0>>
WOne == <<0, 1>>

WNorm(h, l) == <<h + (l \div LimbBase), l % LimbBase>>

WAdd(a, b) == WNorm(a[1] + b[1], a[2] + b[2])

\* a - b for a >= b
WSub(a, b) ==
    IF a[2] >= b[2] THEN <<a[1] - b[1], a[2] - b[2]>>
    ELSE <<a[1] - b[1] - 1, a[2] + LimbBase - b[2]>>

WLt(a, b) == a[1] < b[1] \/ (a[1] = b[1] /\ a[2] < b[2])

RECURSIVE WShl(_, _)
WShl(a, d) ==
    IF d = 0 THEN a
    ELSE IF d >= 27 THEN WShl(<<a[1] * LimbBase + a[2], 0>>, d - 27)
    ELSE <<a[1] * 2^d + (a[2] \div 2^(27 - d)), (a[2] % 2^(27 - d)) * 2^d>>

RECURSIVE WShr(_, _)
WShr(a, d) ==
    IF d = 0 THEN a
    ELSE IF d >= 27 THEN WShr(<<a[1] \div LimbBase, a[1] % LimbBase>>, d - 27)
    ELSE <<a[1] \div 2^d, (a[1] % 2^d) * 2^(27 - d) + (a[2] \div 2^d)>>

\* a mod 2^d for a < 2^58
WRem(a, d) ==
    IF d < 27 THEN <<0, a[2] % 2^d>>
    ELSE IF d >= 58 THEN a
    ELSE <<a[1] % 2^(d - 27), a[2]>>

WOdd(a) == a[2] % 2 = 1

\* the number of bits of n < 2^31
IntBitLen(n) ==
    IF n = 0 THEN 0 ELSE CHOOSE k \in 1..31 : n \div 2^(k - 1) = 1

WBitLen(a) == IF a[1] > 0 THEN 27 + IntBitLen(a[1]) ELSE IntBitLen(a[2])

\* a with its lowest bit set: the sticky bit of a truncated operand
WSticky(a, lost) == IF lost /\ ~WOdd(a) THEN WAdd(a, WOne) ELSE a

\* q or q + 1: q rounded to nearest by the remainder r, ties to even
WRoundUp(q, r, half) ==
    IF WLt(half, r) \/ (r = half /\ WOdd(q)) THEN WAdd(q, WOne) ELSE q

\* floor(a / 2^d) rounded to nearest, ties to even
WRoundShr(a, d) == WRoundUp(WShr(a, d), WRem(a, d), WShl(WOne, d - 1))

-----------------------------------------------------------------------------
(* binary64 values and the float operators of Python.                      *)

FZero == [s |-> 0, m |-> WZero, e |-> 0]

IsZero(x) == x.m = WZero

\* (-1)^s * q * 2^e for a rounded mantissa q: of 53 bits, or 2^53 after a
\* carry out of the rounding
Renorm(s, q, e) ==
    IF q = <<2^26, 0>> THEN [s |-> s, m |-> <<2^25, 0>>, e |-> e + 1]
    ELSE [s |-> s, m |-> q, e |-> e]

\* RoundPack for an n of len bits
RoundBits(s, n, e, len) ==
    IF len = 0 THEN FZero
    ELSE IF len <= 53
    THEN [s |-> s, m |-> WShl(n, 53 - len), e |-> e - (53 - len)]
    ELSE Renorm(s, WRoundShr(n, len - 53), e + (len - 53))

\* the double nearest to (-1)^s * n * 2^e, n < 2^58 exact but for a sticky
\* lowest bit
RoundPack(s, n, e) == RoundBits(s, n, e, WBitLen(n))

\* float(n) for an int n
FromInt(n) ==
    LET a == IF n < 0 THEN -n ELSE n
    IN  RoundPack(IF n < 0 THEN 1 ELSE 0, <<a \div LimbBase, a % LimbBase>>, 0)

FNeg(x) == IF IsZero(x) THEN x ELSE [x EXCEPT !.s = 1 - x.s]

\* abs(x)
FAbs(x) == [x EXCEPT !.s = 0]

MagLt(x, y) ==
    IF IsZero(y) THEN FALSE
    ELSE IF IsZero(x) THEN TRUE
    ELSE x.e < y.e \/ (x.e = y.e /\ WLt(x.m, y.m))

\* x < y
FLt(x, y) ==
    IF x.s = 0 /\ y.s = 0 THEN MagLt(x, y)
    ELSE IF x.s = 1 /\ y.s = 1 THEN MagLt(y, x)
    ELSE x.s = 1

\* x <= y
FLe(x, y) == ~FLt(y, x)

\* x > y
FGt(x, y) == FLt(y, x)

\* x + y for |x| >= |y| > 0: the magnitudes are added or subtracted, with
\* three guard bits and a sticky bit for what y loses in the alignment, and
\* the result has the sign of x (+0.0 if it is zero)
AddOrdered(x, y) ==
    LET d == x.e - y.e
        a == WShl(x.m, 3)
        b == WShl(y.m, 3)
        bs == WSticky(WShr(b, d), WRem(b, d) # WZero)
    IN  IF d > 55 THEN x
        ELSE RoundPack(x.s, IF x.s = y.s THEN WAdd(a, bs) ELSE WSub(a, bs),
                       x.e - 3)

\* x + y
FAdd(x, y) ==
    IF IsZero(x) THEN y
    ELSE IF IsZero(y) THEN x
    ELSE IF MagLt(x, y) THEN AddOrdered(y, x)
    ELSE AddOrdered(x, y)

\* x - y
FSub(x, y) == FAdd(x, FNeg(y))

\* a * k for a small k (k <= 25, a < 2^53)
WMulSmall(a, k) ==
    LET t0 == (a[2] % 2^14) * k
        t1 == (a[2] \div 2^14) * k + (t0 \div 2^14)
    IN  <<a[1] * k + (t1 \div 2^13), (t1 % 2^13) * 2^14 + (t0 % 2^14)>>

\* The quotient q with its next digit, est or est + 1, and the remainder
\* that goes with it, from the remainder r1 that est leaves
DivFix(q, est, r1, d) ==
    IF WLt(r1, d) THEN <<WAdd(q, <<0, est>>), r1>>
    ELSE <<WAdd(q, <<0, est + 1>>), WSub(r1, d)>>

\* One step of the long division of two mantissas, four quotient bits a
\* step: from st = <<q, rem>>, the quotient so far and the remainder
\* rem < d, to the next.  The digit is estimated from the high limbs and is
\* at most one too small.
DivStep(st, d) ==
    LET rs == WShl(st[2], 4)
        est == rs[1] \div (d[1] + 1)
    IN  DivFix(WShl(st[1], 4), est, WSub(rs, WMulSmall(d, est)), d)

\* n steps on; with nothing left to divide the remaining digits are 0
RECURSIVE DivDigits(_, _, _)
DivDigits(st, d, n) ==
    CASE n = 0 -> st
      [] n > 0 /\ st[2] = WZero -> <<WShl(st[1], 4 * n), WZero>>
      [] OTHER -> DivDigits(DivStep(st, d), d, n - 1)

\* x / y for y # 0
FDiv(x, y) ==
    IF IsZero(x) THEN FZero
    ELSE LET q == DivDigits(IF WLt(x.m, y.m) THEN <<WZero, x.m>>
                            ELSE <<WOne, WSub(x.m, y.m)>>, y.m, 14)
         IN  RoundPack(IF x.s = y.s THEN 0 ELSE 1,
                       WSticky(q[1], q[2] # WZero), x.e - y.e - 56)

\* x * 100
FMul100(x) ==
    IF IsZero(x) THEN FZero
    ELSE RoundPack(x.s, WMulSmall(x.m, 25), x.e + 2)

\* The integer nearest to 10 * |x|, ties to even: the digits that Python's
\* round(x, 1) and format(x, ".1f") both produce (|x| < 2^26).
Tenths(x) ==
    LET n == WMulSmall(x.m, 10)
        sh == -x.e
        k == IF sh <= 0 THEN WShl(n, -sh)
             ELSE IF sh >= 58 THEN WZero
             ELSE WRoundShr(n, sh)
    IN  k[1] * LimbBase + k[2]

\* round(x, 1)
Round1(x) ==
    LET k == Tenths(x)
    IN  FDiv(FromInt(IF x.s = 1 THEN -k ELSE k), FromInt(10))

\* The literal p/q of the source text (0.015 is Dec(15, 1000)): the double
\* nearest to the decimal.
Dec(p, q) == FDiv(FromInt(p), FromInt(q))


-----------------------------------------------------------------------------
(* Text.  A Python str is the sequence of its characters, one one-character *)
(* string each, so that lower(), replace() and the "in" test work on it.    *)

\* The str written "..." in the source, as the sequence of its characters
Chars(text) == <<>> \o [i \in 1..Len(text) |-> SubSeq(text, i, i)]

UpperCase == Chars("ABCDEFGHIJKLMNOPQRSTUVWXYZ")
LowerCase == Chars("abcdefghijklmnopqrstuvwxyz")

LowerChar(c) ==
    IF \E i \in 1..26 : UpperCase[i] = c
    THEN LowerCase[CHOOSE i \in 1..26 : UpperCase[i] = c]
    ELSE c

\* s.lower()
lower(s) == [i \in 1..Len(s) |-> LowerChar(s[i])]

\* s.replace(old, new) for one-character old and new
replace(s, old, new) == [i \in 1..Len(s) |-> IF s[i] = old THEN new ELSE s[i]]

\* sub in s
Contains(sub, s) ==
    \E i \in 0..(Len(s) - Len(sub)) : SubSeq(s, i + 1, i + Len(sub)) = sub

Digits == Chars("0123456789")

\* str(n) for an int n >= 0
RECURSIVE NatChars(_)
NatChars(n) ==
    IF n < 10 THEN <<Digits[n + 1]>>
    ELSE NatChars(n \div 10) \o <<Digits[(n % 10) + 1]>>

\* the last d digits of n, zero-padded
RECURSIVE FracChars(_, _)
FracChars(n, d) ==
    IF d = 0 THEN <<>>
    ELSE FracChars(n \div 10, d - 1) \o <<Digits[(n % 10) + 1]>>

SignChars(neg) == IF neg THEN <<"-">> ELSE <<>>

\* format(x, ".1f")
Fmt1(x) ==
    LET k == Tenths(x)
    IN  SignChars(x.s = 1) \o NatChars(k \div 10) \o <<".">> \o FracChars(k, 1)

\* The integer nearest to 100 * |x|, ties to even.
Hundredths(x) ==
    LET n == WMulSmall(x.m, 25)
        sh == -(x.e + 2)
        k == IF sh <= 0 THEN WShl(n, -sh)
             ELSE IF sh >= 59 THEN WZero
             ELSE WRoundShr(n, sh)
    IN  k[1] * LimbBase + k[2]

\* format(x, ".2f")
Fmt2(x) ==
    LET k == Hundredths(x)
    IN  SignChars(x.s = 1) \o NatChars(k \div 100) \o <<".">> \o FracChars(k, 2)

-----------------------------------------------------------------------------
(* Number literals of the source.  <<p, 1>> is the int literal p and        *)
(* <<p, 10^d>> the float literal with d decimals (0.015 is <<15, 1000>>).   *)

Lit(l) == Dec(l[1], l[2])

RECURSIVE Log10(_)
Log10(q) == IF q <= 1 THEN 0 ELSE 1 + Log10(q \div 10)

\* a float literal without its trailing zeros (one decimal is kept)
RECURSIVE StripLit(_)
StripLit(l) ==
    IF l[2] > 10 /\ l[1] % 10 = 0 THEN StripLit(<<l[1] \div 10, l[2] \div 10>>)
    ELSE l

\* str() of a literal's value, as an f-string prints it: 145, 3.0, 0.005
Str(l) ==
    LET a == IF l[1] < 0 THEN -l[1] ELSE l[1]
        t == StripLit(<<a, l[2]>>)
    IN  IF l[2] = 1 THEN SignChars(l[1] < 0) \o NatChars(a)
        ELSE SignChars(l[1] < 0) \o NatChars(t[1] \div t[2]) \o <<".">>
             \o FracChars(t[1] % t[2], Log10(t[2]))

-----------------------------------------------------------------------------
(* Classification and NormativeRange.                                       *)

NORMAL == "Normal"
BORDERLINE == "Borderline"
WEAKNESS_SUSPECTED == "Weakness suspected"
INSUFFICIENT_DATA == "Insufficient data"

Classification == {NORMAL, BORDERLINE, WEAKNESS_SUSPECTED, INSUFFICIENT_DATA}

\* the dataclass if a table gave the two bounds in the other order
NormativeRange_swapped(mean, std_dev, min_normal, max_normal) ==
    [mean |-> Lit(mean), std_dev |-> Lit(std_dev),
     min_normal |-> Lit(max_normal), max_normal |-> Lit(min_normal),
     min_normal_str |-> Str(max_normal), max_normal_str |-> Str(min_normal)]

\* The dataclass; min_normal_str and max_normal_str are str() of the two
\* bounds, which the flags and the normal_range texts print.
NormativeRange(mean, std_dev, min_normal, max_normal) ==
    [mean |-> Lit(mean), std_dev |-> Lit(std_dev),
     min_normal |-> Lit(min_normal), max_normal |-> Lit(max_normal),
     min_normal_str |-> Str(min_normal), max_normal_str |-> Str(max_normal)]

is_within_normal(self, value) ==
    FLe(self.min_normal, value) /\ FLe(value, self.max_normal)

\* get_z_score if a std_dev of 0 left the deviation undivided
get_z_score_undivided(self, value) ==
    IF IsZero(self.std_dev) THEN FSub(value, self.mean)
    ELSE FDiv(FSub(value, self.mean), self.std_dev)

get_z_score(self, value) ==
    IF IsZero(self.std_dev) THEN FZero
    ELSE FDiv(FSub(value, self.mean), self.std_dev)

\* one item of a table: the key and its range
Entry(key, norm) == [key |-> key, norm |-> norm]

\* The items of one age group, from the rows of the table as written:
\* "key": NormativeRange(mean, std_dev, min_normal, max_normal)
Entries(rows) ==
    <<>> \o [i \in 1..Len(rows) |->
                Entry(Chars(rows[i][1]),
                      NormativeRange(rows[i][2], rows[i][3], rows[i][4], rows[i][5]))]


\* ROM_NORMATIVE_DATA, lines 57-85: the age group's entries in table order
ROM_NORMATIVE_DATA ==
    ("5-7" :> Entries(<<
            <<"shoulder_flexion", <<165, 1>>, <<10, 1>>, <<145, 1>>, <<180, 1>>>>,
            <<"shoulder_abduction", <<165, 1>>, <<10, 1>>, <<145, 1>>, <<180, 1>>>>,
            <<"elbow_flexion", <<145, 1>>, <<8, 1>>, <<130, 1>>, <<160, 1>>>>,
            <<"hip_flexion", <<120, 1>>, <<10, 1>>, <<100, 1>>, <<140, 1>>>>,
            <<"knee_flexion", <<135, 1>>, <<8, 1>>, <<120, 1>>, <<150, 1>>>>,
            <<"knee_extension", <<0, 1>>, <<3, 1>>, <<-5, 1>>, <<5, 1>>>> >>))
    @@ ("8-10" :> Entries(<<
            <<"shoulder_flexion", <<168, 1>>, <<9, 1>>, <<150, 1>>, <<180, 1>>>>,
            <<"shoulder_abduction", <<168, 1>>, <<9, 1>>, <<150, 1>>, <<180, 1>>>>,
            <<"elbow_flexion", <<147, 1>>, <<7, 1>>, <<133, 1>>, <<160, 1>>>>,
            <<"hip_flexion", <<122, 1>>, <<9, 1>>, <<105, 1>>, <<140, 1>>>>,
            <<"knee_flexion", <<137, 1>>, <<7, 1>>, <<123, 1>>, <<150, 1>>>>,
            <<"knee_extension", <<0, 1>>, <<3, 1>>, <<-5, 1>>, <<5, 1>>>> >>))
    @@ ("11-13" :> Entries(<<
            <<"shoulder_flexion", <<170, 1>>, <<8, 1>>, <<154, 1>>, <<180, 1>>>>,
            <<"shoulder_abduction", <<170, 1>>, <<8, 1>>, <<154, 1>>, <<180, 1>>>>,
            <<"elbow_flexion", <<148, 1>>, <<6, 1>>, <<136, 1>>, <<160, 1>>>>,
            <<"hip_flexion", <<124, 1>>, <<8, 1>>, <<108, 1>>, <<140, 1>>>>,
            <<"knee_flexion", <<138, 1>>, <<6, 1>>, <<126, 1>>, <<150, 1>>>>,
            <<"knee_extension", <<0, 1>>, <<2, 1>>, <<-3, 1>>, <<3, 1>>>> >>))

\* BALANCE_NORMATIVE_DATA, lines 88-104: the age group's entries in table order
BALANCE_NORMATIVE_DATA ==
    ("5-7" :> Entries(<<
            <<"single_leg_stance_time", <<85, 10>>, <<30, 10>>, <<30, 10>>, <<150, 10>>>>,
            <<"stability_score", <<65, 1>>, <<15, 1>>, <<40, 1>>, <<90, 1>>>>,
            <<"sway_magnitude", <<15, 1000>>, <<8, 1000>>, <<5, 1000>>, <<30, 1000>>>> >>))
    @@ ("8-10" :> Entries(<<
            <<"single_leg_stance_time", <<120, 10>>, <<40, 10>>, <<50, 10>>, <<200, 10>>>>,
            <<"stability_score", <<72, 1>>, <<12, 1>>, <<50, 1>>, <<95, 1>>>>,
            <<"sway_magnitude", <<12, 1000>>, <<6, 1000>>, <<4, 1000>>, <<25, 1000>>>> >>))
    @@ ("11-13" :> Entries(<<
            <<"single_leg_stance_time", <<150, 10>>, <<50, 10>>, <<70, 10>>, <<250, 10>>>>,
            <<"stability_score", <<78, 1>>, <<10, 1>>, <<60, 1>>, <<98, 1>>>>,
            <<"sway_magnitude", <<10, 1000>>, <<5, 1000>>, <<3, 1000>>, <<20, 1000>>>> >>))

\* SYMMETRY_NORMATIVE_DATA, lines 107-115: the age group's entries in table order
SYMMETRY_NORMATIVE_DATA ==
    ("all_ages" :> Entries(<<
            <<"shoulder_symmetry", <<30, 10>>, <<25, 10>>, <<0, 10>>, <<80, 10>>>>,
            <<"elbow_symmetry", <<25, 10>>, <<20, 10>>, <<0, 10>>, <<70, 10>>>>,
            <<"hip_symmetry", <<35, 10>>, <<25, 10>>, <<0, 10>>, <<90, 10>>>>,
            <<"knee_symmetry", <<30, 10>>, <<20, 10>>, <<0, 10>>, <<80, 10>>>>,
            <<"gait_symmetry", <<50, 10>>, <<30, 10>>, <<0, 10>>, <<120, 10>>>> >>))

\* GAIT_NORMATIVE_DATA, lines 118-134: the age group's entries in table order
GAIT_NORMATIVE_DATA ==
    ("5-7" :> Entries(<<
            <<"cadence", <<165, 1>>, <<15, 1>>, <<140, 1>>, <<190, 1>>>>,
            <<"step_length", <<45, 100>>, <<8, 100>>, <<30, 100>>, <<60, 100>>>>,
            <<"stride_time", <<73, 100>>, <<8, 100>>, <<60, 100>>, <<90, 100>>>> >>))
    @@ ("8-10" :> Entries(<<
            <<"cadence", <<155, 1>>, <<12, 1>>, <<135, 1>>, <<180, 1>>>>,
            <<"step_length", <<52, 100>>, <<10, 100>>, <<35, 100>>, <<70, 100>>>>,
            <<"stride_time", <<77, 100>>, <<7, 100>>, <<65, 100>>, <<92, 100>>>> >>))
    @@ ("11-13" :> Entries(<<
            <<"cadence", <<145, 1>>, <<10, 1>>, <<130, 1>>, <<165, 1>>>>,
            <<"step_length", <<60, 100>>, <<12, 100>>, <<40, 100>>, <<80, 100>>>>,
            <<"stride_time", <<83, 100>>, <<6, 100>>, <<70, 100>>, <<98, 100>>>> >>))

-----------------------------------------------------------------------------
(* Helper functions.                                                        *)

\* An Optional value is a sequence: None is the empty one and Some(x) holds
\* the value x.  (Tuples and records are themselves never None, and stand
\* unwrapped where a result is None before the call has run.)
None == <<>>
Some(x) == <<x>>

\* get_age_group with age 7 in the middle band
get_age_group_strict(age) ==
    IF age = None THEN "8-10"
    ELSE IF age[1] < 7 THEN "5-7"
    ELSE IF age[1] <= 10 THEN "8-10"
    ELSE "11-13"

get_age_group(age) ==
    IF age = None THEN "8-10"
    ELSE IF age[1] <= 7 THEN "5-7"
    ELSE IF age[1] <= 10 THEN "8-10"
    ELSE "11-13"

F0 == FZero
F1 == FromInt(1)
F2 == FromInt(2)
F70 == FromInt(70)
F80 == FromInt(80)
F85 == FromInt(85)
F95 == FromInt(95)
F100 == FromInt(100)
\* the literals 0.30 and 0.40
F030 == Dec(30, 100)
F040 == Dec(40, 100)

\* classify_metric with the normal interval taken without its end points
classify_metric_exclusive(value, norm_range) ==
    LET z_score == FAbs(get_z_score(norm_range, value))
    IN  IF FLt(norm_range.min_normal, value) /\ FLt(value, norm_range.max_normal)
        THEN IF FLe(z_score, F1) THEN <<NORMAL, F95>>
             ELSE <<NORMAL, F80>>
        ELSE IF FLe(z_score, F2) THEN <<BORDERLINE, F70>>
             ELSE <<WEAKNESS_SUSPECTED, F85>>

\* classify_metric with |z| = 2.0 on the Weakness side
classify_metric_open(value, norm_range) ==
    LET z_score == FAbs(get_z_score(norm_range, value))
    IN  IF is_within_normal(norm_range, value)
        THEN IF FLe(z_score, F1) THEN <<NORMAL, F95>>
             ELSE <<NORMAL, F80>>
        ELSE IF FLt(z_score, F2) THEN <<BORDERLINE, F70>>
             ELSE <<WEAKNESS_SUSPECTED, F85>>

classify_metric(value, norm_range) ==
    LET z_score == FAbs(get_z_score(norm_range, value))
    IN  IF is_within_normal(norm_range, value)
        THEN IF FLe(z_score, F1) THEN <<NORMAL, F95>>
             ELSE <<NORMAL, F80>>
        ELSE IF FLe(z_score, F2) THEN <<BORDERLINE, F70>>
             ELSE <<WEAKNESS_SUSPECTED, F85>>

\* the loop of aggregate_classifications if it weighed Insufficient-data
\* entries into the total as well
RECURSIVE WeightedCounts_all(_, _, _)
WeightedCounts_all(classifications, i, acc) ==
    IF i > Len(classifications) THEN acc
    ELSE LET classification == classifications[i][1]
             weight == FDiv(classifications[i][2], F100)
         IN  WeightedCounts_all(classifications, i + 1,
                 IF classification \in {NORMAL, BORDERLINE, WEAKNESS_SUSPECTED}
                 THEN [acc EXCEPT ![classification] = FAdd(@, weight),
                                  !.total_weight = FAdd(@, weight)]
                 ELSE [acc EXCEPT !.total_weight = FAdd(@, weight)])

\* the loop of aggregate_classifications if every entry weighed 1
RECURSIVE WeightedCounts_unweighted(_, _, _)
WeightedCounts_unweighted(classifications, i, acc) ==
    IF i > Len(classifications) THEN acc
    ELSE LET classification == classifications[i][1]
         IN  WeightedCounts_unweighted(classifications, i + 1,
                 IF classification \in {NORMAL, BORDERLINE, WEAKNESS_SUSPECTED}
                 THEN [acc EXCEPT ![classification] = FAdd(@, F1),
                                  !.total_weight = FAdd(@, F1)]
                 ELSE acc)

\* The loop of aggregate_classifications over classifications[i..]: the
\* weighted counts and the total weight, accumulated in list order.
RECURSIVE WeightedCounts(_, _, _)
WeightedCounts(classifications, i, acc) ==
    IF i > Len(classifications) THEN acc
    ELSE LET classification == classifications[i][1]
             confidence == classifications[i][2]
             weight == FDiv(confidence, F100)
         IN  IF classification \in {NORMAL, BORDERLINE, WEAKNESS_SUSPECTED}
             THEN WeightedCounts(classifications, i + 1,
                      [acc EXCEPT ![classification] = FAdd(@, weight),
                                  !.total_weight = FAdd(@, weight)])
             ELSE WeightedCounts(classifications, i + 1, acc)

NoCounts ==
    (NORMAL :> F0) @@ (BORDERLINE :> F0) @@ (WEAKNESS_SUSPECTED :> F0)
    @@ ("total_weight" :> F0)

\* weighted_counts if lines 204-205 were left out: the sums as they are
Normalized_raw(counts) ==
    [key \in {NORMAL, BORDERLINE, WEAKNESS_SUSPECTED} |-> counts[key]]

\* weighted_counts after the normalisation of lines 204-205
Normalized(counts) ==
    [key \in {NORMAL, BORDERLINE, WEAKNESS_SUSPECTED} |->
        FDiv(counts[key], counts.total_weight)]

\* the decision as an argmax over the three proportions
Determine_argmax(weighted_counts) ==
    LET best == CHOOSE k \in {NORMAL, BORDERLINE, WEAKNESS_SUSPECTED} :
                   \A j \in {NORMAL, BORDERLINE, WEAKNESS_SUSPECTED} :
                       FLe(weighted_counts[j], weighted_counts[k])
    IN  <<best, FMul100(weighted_counts[best])>>

\* the decision if the most severe classification with any weight won
Determine_worst(weighted_counts) ==
    IF FGt(weighted_counts[WEAKNESS_SUSPECTED], F0)
    THEN <<WEAKNESS_SUSPECTED, FMul100(weighted_counts[WEAKNESS_SUSPECTED])>>
    ELSE IF FGt(weighted_counts[BORDERLINE], F0)
    THEN <<BORDERLINE, FMul100(weighted_counts[BORDERLINE])>>
    ELSE <<NORMAL, FMul100(weighted_counts[NORMAL])>>

\* The decision of lines 206-220 on the normalised weighted_counts: the
\* first of the three tests that holds.
Determine(weighted_counts) ==
    IF FGt(weighted_counts[WEAKNESS_SUSPECTED], F030)
    THEN <<WEAKNESS_SUSPECTED, FMul100(weighted_counts[WEAKNESS_SUSPECTED])>>
    ELSE IF FGt(weighted_counts[BORDERLINE], F040)
    THEN <<BORDERLINE, FMul100(weighted_counts[BORDERLINE])>>
    ELSE <<NORMAL, FMul100(weighted_counts[NORMAL])>>

\* aggregate_classifications if nothing to aggregate counted as Normal
aggregate_classifications_default(classifications) ==
    LET counts == WeightedCounts(classifications, 1, NoCounts)
    IN  IF classifications = <<>> \/ IsZero(counts.total_weight)
        THEN <<NORMAL, F100>>
        ELSE Determine(Normalized(counts))

\* aggregate_classifications if the confidence returned were the mean
\* confidence of the entries of the winning classification
aggregate_classifications_mean_confidence(classifications) ==
    IF classifications = <<>> THEN <<INSUFFICIENT_DATA, F0>>
    ELSE LET counts == WeightedCounts(classifications, 1, NoCounts)
             winner == Determine(Normalized(counts))[1]
             n == Cardinality({ i \in 1..Len(classifications) :
                                  classifications[i][1] = winner })
         IN  IF IsZero(counts.total_weight) THEN <<INSUFFICIENT_DATA, F0>>
             ELSE <<winner, FMul100(FDiv(counts[winner], FromInt(n)))>>

\* aggregate_classifications if fewer than two entries were too few
aggregate_classifications_min_two(classifications) ==
    IF Len(classifications) < 2 THEN <<INSUFFICIENT_DATA, F0>>
    ELSE LET counts == WeightedCounts(classifications, 1, NoCounts)
         IN  IF IsZero(counts.total_weight) THEN <<INSUFFICIENT_DATA, F0>>
             ELSE Determine(Normalized(counts))

aggregate_classifications(classifications) ==
    IF classifications = <<>> THEN <<INSUFFICIENT_DATA, F0>>
    ELSE LET counts == WeightedCounts(classifications, 1, NoCounts)
         IN  IF IsZero(counts.total_weight) THEN <<INSUFFICIENT_DATA, F0>>
             ELSE Determine(Normalized(counts))

-----------------------------------------------------------------------------
(* The degree sign of the f-strings: one code point.                        *)

Degree == <<"[U+00B0]">>

-----------------------------------------------------------------------------
(* Main analysis functions.  A dict is the sequence of its (key, value)     *)
(* items in insertion order, with no key twice.                             *)

Keys(dict) == [i \in 1..Len(dict) |-> dict[i][1]]

HasKey(dict, key) == \E i \in 1..Len(dict) : dict[i][1] = key

\* dict[key] for a key of the dict
Get(dict, key) == dict[CHOOSE i \in 1..Len(dict) : dict[i][1] = key][2]

\* dict[key] = value
Put(dict, key, value) ==
    IF HasKey(dict, key)
    THEN [i \in 1..Len(dict) |->
             IF dict[i][1] = key THEN <<key, value>> ELSE dict[i]]
    ELSE Append(dict, <<key, value>>)

\* dict.update(items)
RECURSIVE Update(_, _)
Update(dict, items) ==
    IF items = <<>> THEN dict
    ELSE Update(Put(dict, Head(items)[1], Head(items)[2]), Tail(items))

\* the table lookup if it took the youngest group whatever the age group
TableGet_youngest(table, age_group) == table["5-7"]

\* normative_data.get(age_group, normative_data["8-10"])
TableGet(table, age_group) ==
    IF age_group \in DOMAIN table THEN table[age_group] ELSE table["8-10"]

\* the matching loop of analyze_rom if the last matching entry won
MatchRom_last(normative_data, joint_key, i) ==
    LET hits == { k \in i..Len(normative_data) :
                    LET key == replace(normative_data[k].key, "_", " ")
                    IN  Contains(key, joint_key) \/ Contains(joint_key, key) }
    IN  IF hits = {} THEN None
        ELSE normative_data[CHOOSE k \in hits : \A h \in hits : h <= k].norm

\* The matching loop of analyze_rom (lines 253-256): the first entry, in
\* table order, whose key holds joint_key or is held by it; None if none.
RECURSIVE MatchRom(_, _, _)
MatchRom(normative_data, joint_key, i) ==
    IF i > Len(normative_data) THEN None
    ELSE LET key == replace(normative_data[i].key, "_", " ")
         IN  IF Contains(key, joint_key) \/ Contains(joint_key, key)
             THEN normative_data[i].norm
             ELSE MatchRom(normative_data, joint_key, i + 1)

\* The matching loop of analyze_symmetry (lines 379-382).
RECURSIVE MatchSymmetry(_, _, _)
MatchSymmetry(normative_data, metric_key, i) ==
    IF i > Len(normative_data) THEN None
    ELSE LET key == normative_data[i].key
         IN  IF Contains(metric_key, key) \/ Contains(key, metric_key)
             THEN normative_data[i].norm
             ELSE MatchSymmetry(normative_data, metric_key, i + 1)

\* metric_key in normative_data, then normative_data[metric_key]
\* (analyze_balance and analyze_gait)
MatchExact(normative_data, metric_key) ==
    IF \E i \in 1..Len(normative_data) : normative_data[i].key = metric_key
    THEN normative_data[CHOOSE i \in 1..Len(normative_data) :
                            normative_data[i].key = metric_key].norm
    ELSE None

\* the range a metric name is classified against, None if there is none
Match(domain, normative_data, metric) ==
    IF domain = "rom"
    THEN MatchRom(normative_data, replace(lower(metric), "_", " "), 1)
    ELSE IF domain = "symmetry"
    THEN MatchSymmetry(normative_data, replace(lower(metric), " ", "_"), 1)
    ELSE MatchExact(normative_data, replace(lower(metric), " ", "_"))

\* the "normal_range" text of a per-metric record
NormalRangeText(domain, norm_range) ==
    IF domain = "rom"
    THEN norm_range.min_normal_str \o Chars("-") \o norm_range.max_normal_str
         \o Degree
    ELSE IF domain = "symmetry"
    THEN Chars("<") \o norm_range.max_normal_str \o Chars("%")
    ELSE norm_range.min_normal_str \o Chars("-") \o norm_range.max_normal_str

\* the flag of a metric classified Weakness suspected
WeaknessFlag(domain, metric, value, norm_range) ==
    IF domain = "rom"
    THEN Chars("Limited ROM in ") \o metric \o Chars(": ") \o Fmt1(value) \o Degree \o Chars(" (normal: ")
         \o norm_range.min_normal_str \o Chars("-") \o norm_range.max_normal_str
         \o Degree \o Chars(")")
    ELSE IF domain = "balance"
    THEN Chars("Poor balance: ") \o metric \o Chars(" = ") \o Fmt1(value) \o Chars(" (normal: >")
         \o norm_range.min_normal_str \o Chars(")")
    ELSE IF domain = "symmetry"
    THEN Chars("Significant asymmetry in ") \o metric \o Chars(": ") \o Fmt1(value)
         \o Chars("% (normal: <") \o norm_range.max_normal_str \o Chars("%)")
    ELSE Chars("Abnormal gait: ") \o metric \o Chars(" = ") \o Fmt2(value)

\* the flag of a Borderline metric if it named the metric and the value only
BorderlineFlag_plain(domain, metric, value) ==
    IF domain = "gait" THEN metric \o Chars(" = ") \o Fmt2(value)
    ELSE metric \o Chars(": ") \o Fmt1(value)

\* the flag of a metric classified Borderline
BorderlineFlag(domain, metric, value) ==
    IF domain = "rom"
    THEN Chars("Borderline ROM in ") \o metric \o Chars(": ") \o Fmt1(value) \o Degree
    ELSE IF domain = "balance"
    THEN Chars("Borderline balance: ") \o metric \o Chars(" = ") \o Fmt1(value)
    ELSE IF domain = "symmetry"
    THEN Chars("Borderline asymmetry in ") \o metric \o Chars(": ") \o Fmt1(value)
         \o Chars("%")
    ELSE Chars("Borderline gait: ") \o metric \o Chars(" = ") \o Fmt2(value)

NoResults == [results |-> <<>>, classifications |-> <<>>, z_scores |-> <<>>,
              flags |-> <<>>]

\* the collections if only a Weakness-suspected metric raised a flag
Collect_weakness_only(domain, metric, value, norm_range, c, z_score, acc) ==
    [results |->
       Put(acc.results, metric,
           [value |-> value, classification |-> c[1], confidence |-> c[2],
            z_score |-> z_score,
            normal_range |-> NormalRangeText(domain, norm_range),
            mean |-> norm_range.mean]),
     classifications |-> Append(acc.classifications, c),
     z_scores |-> Put(acc.z_scores, metric, z_score),
     flags |->
       IF c[1] = WEAKNESS_SUSPECTED
       THEN Append(acc.flags, WeaknessFlag(domain, metric, value, norm_range))
       ELSE acc.flags]

\* What lines 259-278 add to the four collections for a metric matched to
\* norm_range, classified c and of the given z_score.
Collect(domain, metric, value, norm_range, c, z_score, acc) ==
    [results |->
       Put(acc.results, metric,
           [value |-> value, classification |-> c[1], confidence |-> c[2],
            z_score |-> z_score,
            normal_range |-> NormalRangeText(domain, norm_range),
            mean |-> norm_range.mean]),
     classifications |-> Append(acc.classifications, c),
     z_scores |-> Put(acc.z_scores, metric, z_score),
     flags |->
       IF c[1] = WEAKNESS_SUSPECTED
       THEN Append(acc.flags, WeaknessFlag(domain, metric, value, norm_range))
       ELSE IF c[1] = BORDERLINE
       THEN Append(acc.flags, BorderlineFlag(domain, metric, value))
       ELSE acc.flags]

\* the loop body if an unmatched metric were recorded as Insufficient data
LoopBody_keep_unmatched(domain, normative_data, metric, value, acc) ==
    LET norm_range == Match(domain, normative_data, metric)
        matched == IF norm_range = None THEN normative_data[1].norm
                   ELSE norm_range
    IN  Collect(domain, metric, value, matched,
                IF norm_range = None THEN <<INSUFFICIENT_DATA, F0>>
                ELSE classify_metric(value, matched),
                get_z_score(matched, value), acc)

\* The body of an analyzer's loop for one (metric, value) item: the four
\* collections after it.
LoopBody(domain, normative_data, metric, value, acc) ==
    LET norm_range == Match(domain, normative_data, metric)
    IN  IF norm_range = None THEN acc
        ELSE Collect(domain, metric, value, norm_range,
                     classify_metric(value, norm_range),
                     get_z_score(norm_range, value), acc)

\* the loop over data[i..]
RECURSIVE Loop(_, _, _, _, _)
Loop(domain, normative_data, data, i, acc) ==
    IF i > Len(data) THEN acc
    ELSE Loop(domain, normative_data, data, i + 1,
              LoopBody(domain, normative_data, data[i][1], data[i][2], acc))

\* the dict an analyzer would return if a domain with no matched metric
\* counted as Normal with full confidence
DomainResult_unmatched_normal(acc, age_group) ==
    LET overall == IF acc.classifications = <<>> THEN <<NORMAL, F100>>
                   ELSE aggregate_classifications(acc.classifications)
    IN  [overall_classification |-> overall[1],
         confidence |-> Round1(overall[2]),
         individual_results |-> acc.results,
         z_scores |-> acc.z_scores,
         flags |-> acc.flags]
        @@ (IF age_group = None THEN <<>>
            ELSE [age_group |-> age_group[1]])

\* the dict an analyzer returns; analyze_symmetry gives no age_group
DomainResult(acc, age_group) ==
    LET overall == aggregate_classifications(acc.classifications)
    IN  [overall_classification |-> overall[1],
         confidence |-> Round1(overall[2]),
         individual_results |-> acc.results,
         z_scores |-> acc.z_scores,
         flags |-> acc.flags]
        @@ (IF age_group = None THEN <<>>
            ELSE [age_group |-> age_group[1]])

analyze_rom(joint_data, age) ==
    LET age_group == get_age_group(age)
        normative_data == TableGet(ROM_NORMATIVE_DATA, age_group)
    IN  DomainResult(Loop("rom", normative_data, joint_data, 1, NoResults),
                     Some(age_group))

analyze_balance(balance_data, age) ==
    LET age_group == get_age_group(age)
        normative_data == TableGet(BALANCE_NORMATIVE_DATA, age_group)
    IN  DomainResult(Loop("balance", normative_data, balance_data, 1, NoResults),
                     Some(age_group))

\* analyze_symmetry if it resolved and returned the age group as the others
analyze_symmetry_by_age(symmetry_data, age) ==
    LET age_group == get_age_group(age)
        normative_data == SYMMETRY_NORMATIVE_DATA["all_ages"]
    IN  DomainResult(Loop("symmetry", normative_data, symmetry_data, 1,
                          NoResults), Some(age_group))

analyze_symmetry(symmetry_data, age) ==
    LET normative_data == SYMMETRY_NORMATIVE_DATA["all_ages"]
    IN  DomainResult(Loop("symmetry", normative_data, symmetry_data, 1,
                          NoResults), None)

analyze_gait(gait_data, age) ==
    LET age_group == get_age_group(age)
        normative_data == TableGet(GAIT_NORMATIVE_DATA, age_group)
    IN  DomainResult(Loop("gait", normative_data, gait_data, 1, NoResults),
                     Some(age_group))

-----------------------------------------------------------------------------
(* generate_recommendations.  A recommendation is a text like a flag.       *)

\* The warning sign that opens the first sentence: two code points
WarningSign == <<"[U+26A0]", "[U+FE0F]">>

\* flags[:n] without the limit
Take_all(flags, n) == flags

\* flags[:n]
Take(flags, n) == SubSeq(flags, 1, IF n < Len(flags) THEN n ELSE Len(flags))

\* lines 582-584
NormalRecommendations ==
    << Chars("Movement patterns are within normal limits for age group."),
       Chars("Continue regular physical activity and sports participation."),
       Chars("Annual screening recommended for monitoring development.") >>

\* the Borderline branch if every matching flag added its bullet again
BorderlineRecommendations_per_flag(flags) ==
    LET RECURSIVE bullets(_)
        bullets(i) ==
            IF i > Len(flags) THEN <<>>
            ELSE (IF Contains(Chars("ROM"), flags[i])
                     \/ Contains(Chars("range"), lower(flags[i]))
                  THEN <<Chars("  - Stretching and flexibility exercises")>>
                  ELSE <<>>)
                 \o (IF Contains(Chars("balance"), lower(flags[i]))
                     THEN <<Chars("  - Balance training (single-leg stance, proprioception exercises)")>>
                     ELSE <<>>)
                 \o (IF Contains(Chars("symmetry"), lower(flags[i]))
                     THEN <<Chars("  - Bilateral strengthening exercises")>>
                     ELSE <<>>)
                 \o (IF Contains(Chars("gait"), lower(flags[i]))
                     THEN <<Chars("  - Gait training and walking exercises")>>
                     ELSE <<>>)
                 \o bullets(i + 1)
    IN  << Chars("Some movement patterns show borderline values."),
           Chars("Follow-up assessment in 3-6 months recommended."),
           Chars("Consider targeted exercises for areas of concern:") >>
        \o bullets(1)

\* lines 587-599: the three sentences, then a bullet for each of the four
\* tests that some flag passes
BorderlineRecommendations(flags) ==
    LET isRom(flag) == Contains(Chars("ROM"), flag)
                       \/ Contains(Chars("range"), lower(flag))
        isBalance(flag) == Contains(Chars("balance"), lower(flag))
        isSymmetry(flag) == Contains(Chars("asymmetry"), lower(flag))
                            \/ Contains(Chars("symmetry"), lower(flag))
        isGait(flag) == Contains(Chars("gait"), lower(flag))
    IN  << Chars("Some movement patterns show borderline values."),
           Chars("Follow-up assessment in 3-6 months recommended."),
           Chars("Consider targeted exercises for areas of concern:") >>
        \o (IF \E i \in 1..Len(flags) : isRom(flags[i])
            THEN <<Chars("  - Stretching and flexibility exercises")>>
            ELSE <<>>)
        \o (IF \E i \in 1..Len(flags) : isBalance(flags[i])
            THEN <<Chars("  - Balance training (single-leg stance, proprioception exercises)")>>
            ELSE <<>>)
        \o (IF \E i \in 1..Len(flags) : isSymmetry(flags[i])
            THEN <<Chars("  - Bilateral strengthening exercises")>>
            ELSE <<>>)
        \o (IF \E i \in 1..Len(flags) : isGait(flags[i])
            THEN <<Chars("  - Gait training and walking exercises")>>
            ELSE <<>>)

\* lines 602-609: the four sentences, then a line for each of flags[:5]
WeaknessRecommendations(flags) ==
    << WarningSign \o Chars(" Movement patterns suggest possible motor weakness."),
       Chars("Professional evaluation by pediatric physical therapist recommended."),
       Chars("Comprehensive clinical assessment advised within 2-4 weeks."),
       Chars("Specific areas of concern:") >>
    \o [i \in 1..Len(Take(flags, 5)) |-> Chars("  - ") \o flags[i]]

\* generate_recommendations if the Normal branch listed the flags as well
generate_recommendations_listing(classification, flags, metrics) ==
    IF classification = NORMAL
    THEN NormalRecommendations
         \o [i \in 1..Len(Take(flags, 5)) |-> Chars("  - ") \o flags[i]]
    ELSE IF classification = BORDERLINE THEN BorderlineRecommendations(flags)
    ELSE IF classification = WEAKNESS_SUSPECTED
    THEN WeaknessRecommendations(flags)
    ELSE <<>>

\* generate_recommendations if a classification without a branch got the
\* sentences of the first branch
generate_recommendations_fallback(classification, flags, metrics) ==
    IF classification = BORDERLINE THEN BorderlineRecommendations(flags)
    ELSE IF classification = WEAKNESS_SUSPECTED
    THEN WeaknessRecommendations(flags)
    ELSE NormalRecommendations

\* The if/elif chain of lines 581-609: a classification with no branch
\* (Insufficient data) leaves the list empty.
generate_recommendations(classification, flags, metrics) ==
    IF classification = NORMAL THEN NormalRecommendations
    ELSE IF classification = BORDERLINE THEN BorderlineRecommendations(flags)
    ELSE IF classification = WEAKNESS_SUSPECTED
    THEN WeaknessRecommendations(flags)
    ELSE <<>>

\* the z-scores taken over under the metric names alone
Prefixed_bare(prefix, z_scores) == z_scores

\* {f"{domain}_{k}": v for k, v in z_scores.items()}
Prefixed(prefix, z_scores) ==
    [i \in 1..Len(z_scores) |-> <<prefix \o z_scores[i][1], z_scores[i][2]>>]

\* "if data is not None:" in the place of "if data:"
Truthy_not_none(data) == data # None

\* "if data:" for an Optional[Dict]
Truthy(data) == data # None /\ data[1] # <<>>

AnalysisResult(classification, confidence, metrics, age_group, recommendations, flags, z_scores) ==
    [classification |-> classification, confidence |-> confidence,
     metrics_analysis |-> metrics, age_group |-> age_group,
     recommendations |-> recommendations, flags |-> flags,
     z_scores |-> z_scores]

-----------------------------------------------------------------------------
(* State.  The engine keeps no state between calls; the state of the model  *)
(* is the calls in progress: the arguments of a call and, once it has run,  *)
(* what it returned (None before).  A call of comprehensive_analysis also   *)
(* has its position pc and its local variables.                             *)

VARIABLES
    cm_value, cm_range, cm_result,      \* a call of classify_metric
    ag_list, ag_result, ag_before,      \* a call of aggregate_classifications
    ga_age, ga_result,                  \* a call of get_age_group
    an_domain, an_data, an_age, an_result,  \* a call of a domain analyzer
    gr_classification, gr_flags, gr_metrics, gr_result,
                                        \* a call of generate_recommendations
    rom_data, balance_data, symmetry_data, gait_data, age,
    pc, age_group, all_classifications, all_flags, all_z_scores,
    metrics_analysis, result,           \* a call of comprehensive_analysis
    calls,                              \* calls of it running concurrently
    tables                              \* the module's reference tables

cmVars == <<cm_value, cm_range, cm_result>>
agVars == <<ag_list, ag_result, ag_before>>
gaVars == <<ga_age, ga_result>>
anVars == <<an_domain, an_data, an_age, an_result>>
grVars == <<gr_classification, gr_flags, gr_metrics, gr_result>>
caArgs == <<rom_data, balance_data, symmetry_data, gait_data, age>>
caLocals == <<age_group, all_classifications, all_flags, all_z_scores,
              metrics_analysis>>
caVars == <<caArgs, pc, caLocals, result, calls>>
vars == <<cmVars, agVars, gaVars, anVars, grVars, caVars, tables>>

\* the four module-level tables, as the import of the module leaves them
ReferenceTables ==
    [rom |-> ROM_NORMATIVE_DATA, balance |-> BALANCE_NORMATIVE_DATA,
     symmetry |-> SYMMETRY_NORMATIVE_DATA, gait |-> GAIT_NORMATIVE_DATA]

\* no call of the function is in progress
cmIdle == cm_value = FZero /\ cm_range = None /\ cm_result = None
agIdle == ag_list = <<>> /\ ag_result = None /\ ag_before = None
gaIdle == ga_age = None /\ ga_result = None
anIdle == an_domain = "" /\ an_data = <<>> /\ an_age = None /\ an_result = None
grIdle ==
    /\ gr_classification = "" /\ gr_flags = <<>> /\ gr_metrics = <<>>
    /\ gr_result = None
caIdle ==
    /\ rom_data = None /\ balance_data = None /\ symmetry_data = None
    /\ gait_data = None /\ age = None
    /\ pc = "" /\ age_group = None /\ all_classifications = <<>>
    /\ all_flags = <<>> /\ all_z_scores = <<>> /\ metrics_analysis = <<>>
    /\ result = None /\ calls = <<>>

-----------------------------------------------------------------------------
(* Calls of classify_metric.                                                *)

MaxValue == 200

AgeGroups == {"5-7", "8-10", "11-13"}

Range(seq) == {seq[i] : i \in 1..Len(seq)}

\* every entry of the four reference tables
TableEntries ==
    UNION { Range(ROM_NORMATIVE_DATA[g]) \cup Range(BALANCE_NORMATIVE_DATA[g])
            \cup Range(GAIT_NORMATIVE_DATA[g]) : g \in AgeGroups }
    \cup Range(SYMMETRY_NORMATIVE_DATA["all_ages"])

\* Measured values come in the unit of their metric, k / UnitsPer(key) for
\* an int k: degrees, steps a minute and scores are whole numbers, seconds
\* and percentages have one decimal, metres two and the sway three.
UnitsPer(key) ==
    IF key = Chars("sway_magnitude") THEN 1000
    ELSE IF key \in {Chars("step_length"), Chars("stride_time")} THEN 100
    ELSE IF key = Chars("single_leg_stance_time")
            \/ key \in {e.key : e \in Range(SYMMETRY_NORMATIVE_DATA["all_ages"])}
         THEN 10
    ELSE 1

\* ranges no table holds: no variance (std_dev 0 and 0.0, the second with
\* its mean on the lower bound), and a mean outside the interval
OtherRanges ==
    { NormativeRange(<<10, 1>>, <<0, 1>>, <<5, 1>>, <<15, 1>>),
      NormativeRange(<<0, 10>>, <<0, 10>>, <<0, 10>>, <<80, 10>>),
      NormativeRange(<<50, 1>>, <<20, 1>>, <<60, 1>>, <<80, 1>>) }

\* The (range, value) pairs classify_metric is called with: the ranges of
\* the tables with values in the unit of their metric, and the other
\* ranges with whole values.
InitClassify ==
    /\ \/ \E e \in TableEntries, k \in (-MaxValue)..MaxValue :
              cm_range = e.norm /\ cm_value = Dec(k, UnitsPer(e.key))
       \/ \E r \in OtherRanges, k \in (-MaxValue)..MaxValue :
              cm_range = r /\ cm_value = FromInt(k)
    /\ cm_result = None
    /\ agIdle /\ gaIdle /\ anIdle /\ grIdle /\ caIdle
    /\ tables = ReferenceTables

CallClassifyMetric ==
    /\ cm_result = None
    /\ cm_result' = classify_metric(cm_value, cm_range)
    /\ UNCHANGED <<cm_value, cm_range, agVars, gaVars, anVars, grVars, caVars,
                   tables>>

SpecClassify == InitClassify /\ [][CallClassifyMetric]_vars

-----------------------------------------------------------------------------
(* Calls of get_age_group.                                                  *)

MaxAge == 60

InitAge ==
    /\ ga_age \in {None} \cup {Some(a) : a \in (7 - MaxAge)..MaxAge}
    /\ ga_result = None
    /\ cmIdle /\ agIdle /\ anIdle /\ grIdle /\ caIdle
    /\ tables = ReferenceTables

CallGetAgeGroup ==
    /\ ga_result = None
    /\ ga_result' = Some(get_age_group(ga_age))
    /\ UNCHANGED <<ga_age, cmVars, agVars, anVars, grVars, caVars, tables>>

SpecAge == InitAge /\ [][CallGetAgeGroup]_vars

-----------------------------------------------------------------------------
(* Calls of aggregate_classifications.                                      *)

MaxEntries == 3

\* The (classification, confidence) pairs the calls are made of: pairs
\* classify_metric returns, pairs that put a proportion on a threshold, a
\* pair of no weight and an Insufficient-data pair.
EntryPool ==
    { <<NORMAL, F95>>, <<BORDERLINE, F70>>, <<WEAKNESS_SUSPECTED, F85>>,
      <<NORMAL, FromInt(70)>>, <<WEAKNESS_SUSPECTED, FromInt(30)>>,
      <<NORMAL, FromInt(60)>>, <<BORDERLINE, FromInt(40)>>,
      <<NORMAL, F0>>, <<INSUFFICIENT_DATA, F95>> }

InitAggregate ==
    /\ ag_list \in UNION { [1..n -> EntryPool] : n \in 0..MaxEntries }
    /\ ag_result = None
    /\ ag_before = None
    /\ cmIdle /\ gaIdle /\ anIdle /\ grIdle /\ caIdle
    /\ tables = ReferenceTables

CallAggregate ==
    /\ ag_result = None
    /\ ag_result' = aggregate_classifications(ag_list)
    /\ UNCHANGED <<ag_list, ag_before, cmVars, gaVars, anVars, grVars, caVars,
                   tables>>

SpecAggregate == InitAggregate /\ [][CallAggregate]_vars

\* The calls whose entries are then passed in another order: up to
\* MaxEntries of six pairs.
InitAggregateOrder ==
    /\ ag_list \in
          UNION { [1..n ->
                     { <<NORMAL, F95>>, <<NORMAL, F80>>, <<BORDERLINE, F70>>,
                       <<WEAKNESS_SUSPECTED, F85>>,
                       <<NORMAL, FromInt(70)>>,
                       <<WEAKNESS_SUSPECTED, FromInt(60)>> }]
                  : n \in 0..MaxEntries }
    /\ ag_result = None
    /\ ag_before = None
    /\ cmIdle /\ gaIdle /\ anIdle /\ grIdle /\ caIdle
    /\ tables = ReferenceTables

Swap(seq, i) ==
    [k \in 1..Len(seq) |->
        IF k = i THEN seq[i + 1] ELSE IF k = i + 1 THEN seq[i] ELSE seq[k]]

\* The same entries passed again with two neighbours exchanged; ag_before
\* keeps what the first call returned.
CallAggregateSwapped ==
    /\ ag_result # None
    /\ ag_before = None
    /\ \E i \in 1..(Len(ag_list) - 1) :
          /\ ag_list[i] # ag_list[i + 1]
          /\ ag_list' = Swap(ag_list, i)
    /\ ag_before' = ag_result
    /\ ag_result' = aggregate_classifications(ag_list')
    /\ UNCHANGED <<cmVars, gaVars, anVars, grVars, caVars, tables>>

SpecAggregateOrder ==
    InitAggregateOrder /\ [][CallAggregate \/ CallAggregateSwapped]_vars

-----------------------------------------------------------------------------
(* Calls of the domain analyzers.                                           *)

MaxMetrics == 3

\* The (metric, value) items the calls are made of, per domain: for the
\* matched names values that classify Normal, Borderline and Weakness
\* suspected in some age group, and names that match no entry.
MetricPool ==
    [rom |->
        { <<Chars("shoulder_flexion"), Dec(170, 1)>>, <<Chars("shoulder_flexion"), Dec(100, 1)>>,
          <<Chars("elbow_flexion"), Dec(100, 1)>>,
          <<Chars("hip_flexion"), Dec(120, 1)>>, <<Chars("knee_extension"), Dec(6, 1)>>,
          <<Chars("grip_strength"), Dec(30, 1)>> },
     balance |->
        { <<Chars("stability_score"), Dec(35, 1)>>, <<Chars("stability_score"), Dec(75, 1)>>,
          <<Chars("single_leg_stance_time"), Dec(20, 10)>>,
          <<Chars("sway_magnitude"), Dec(11, 1000)>>,
          <<Chars("Stability Score"), Dec(60, 1)>>,
          <<Chars("stability"), Dec(35, 1)>> },
     symmetry |->
        { <<Chars("shoulder_symmetry"), Dec(30, 10)>>, <<Chars("shoulder_symmetry"), Dec(95, 10)>>,
          <<Chars("knee_symmetry"), Dec(85, 10)>>,
          <<Chars("elbow_symmetry"), Dec(-5, 10)>>,
          <<Chars("symmetry"), Dec(30, 10)>>,
          <<Chars("posture"), Dec(50, 10)>> },
     gait |->
        { <<Chars("cadence"), Dec(155, 1)>>, <<Chars("cadence"), Dec(120, 1)>>,
          <<Chars("step_length"), Dec(29, 100)>>,
          <<Chars("stride_time"), Dec(59, 100)>>,
          <<Chars("cadence_left"), Dec(150, 1)>>,
          <<Chars("foo"), Dec(1, 1)>> }]

\* the dicts of n items of a pool: no key twice
DictsOf(pool, n) ==
    { d \in [1..n -> pool] :
          \A i \in 1..n : \A j \in 1..n : i # j => d[i][1] # d[j][1] }

InitDomain ==
    /\ an_domain \in {"rom", "balance", "symmetry", "gait"}
    /\ an_data \in UNION { DictsOf(MetricPool[an_domain], n) : n \in 0..MaxMetrics }
    /\ an_age \in {None, Some(7), Some(12)}
    /\ an_result = None
    /\ cmIdle /\ agIdle /\ gaIdle /\ grIdle /\ caIdle
    /\ tables = ReferenceTables

Returns(value) ==
    /\ an_result = None
    /\ an_result' = Some(value)
    /\ UNCHANGED <<an_domain, an_data, an_age, cmVars, agVars, gaVars, grVars,
                   caVars, tables>>

CallAnalyzeRom == an_domain = "rom" /\ Returns(analyze_rom(an_data, an_age))

CallAnalyzeBalance ==
    an_domain = "balance" /\ Returns(analyze_balance(an_data, an_age))

CallAnalyzeSymmetry ==
    an_domain = "symmetry" /\ Returns(analyze_symmetry(an_data, an_age))

CallAnalyzeGait == an_domain = "gait" /\ Returns(analyze_gait(an_data, an_age))

SpecDomain ==
    InitDomain /\ [][\/ CallAnalyzeRom
                     \/ CallAnalyzeBalance
                     \/ CallAnalyzeSymmetry
                     \/ CallAnalyzeGait]_vars

-----------------------------------------------------------------------------
(* Calls of the analyzers that match by name, with names that are parts of  *)
(* table keys, hold a table key or are written in another way.              *)

MaxNames == 2

InitMatch ==
    /\ an_domain \in {"rom", "balance", "gait"}
    /\ LET names ==
               [rom |->
                   { <<Chars("knee"), Dec(135, 1)>>, <<Chars("flexion"), Dec(165, 1)>>,
                     <<Chars("hip"), Dec(120, 1)>>,
                     <<Chars("shoulder_flexion_left"), Dec(140, 1)>>,
                     <<Chars("shoulder_flexion_right"), Dec(142, 1)>>,
                     <<Chars("Knee Extension"), Dec(2, 1)>>,
                     <<Chars("elbow"), Dec(145, 1)>>,
                     <<Chars("knee_flexion"), Dec(100, 1)>>,
                     <<Chars(""), Dec(150, 1)>>,
                     <<Chars("wrist"), Dec(60, 1)>> },
                balance |->
                   { <<Chars("stability"), Dec(35, 1)>>,
                     <<Chars("stability_score"), Dec(75, 1)>>,
                     <<Chars("Stability Score"), Dec(60, 1)>>,
                     <<Chars("sway"), Dec(11, 1000)>>,
                     <<Chars("single_leg_stance_time_left"), Dec(20, 10)>> },
                gait |->
                   { <<Chars("cadence_left"), Dec(150, 1)>>,
                     <<Chars("cadence"), Dec(155, 1)>>,
                     <<Chars("Step Length"), Dec(29, 100)>>,
                     <<Chars("stride"), Dec(75, 100)>>,
                     <<Chars("step_length_cm"), Dec(52, 1)>> }]
       IN  an_data \in UNION { DictsOf(names[an_domain], n) : n \in 1..MaxNames }
    /\ an_age \in {None, Some(7), Some(12)}
    /\ an_result = None
    /\ cmIdle /\ agIdle /\ gaIdle /\ grIdle /\ caIdle
    /\ tables = ReferenceTables

SpecMatch ==
    InitMatch /\ [][\/ CallAnalyzeRom
                    \/ CallAnalyzeBalance
                    \/ CallAnalyzeGait]_vars

-----------------------------------------------------------------------------
(* Calls of generate_recommendations.                                       *)

MaxFlags == 3

\* The flags the calls are made of: flags as the analyzers write them, one
\* of them for a metric name with "rom" in it, and texts in other letter
\* cases or with none of the words.
FlagPool ==
    { Chars("Borderline ROM in knee_flexion: 123.0") \o Degree,
      Chars("Borderline balance: stability_score = 35.0"),
      Chars("Borderline gait: cadence = 120.00"),
      Chars("Significant asymmetry in from_shoulder_symmetry: 9.0% (normal: <8.0%)"),
      Chars("Reduced RANGE of motion"),
      Chars("BALANCE and GAIT"),
      Chars("low rom") }

InitRecommend ==
    /\ gr_classification \in Classification
    /\ gr_flags \in UNION { [1..n -> FlagPool] : n \in 0..MaxFlags }
    /\ gr_metrics \in
          { <<>>,
            << <<"rom", analyze_rom(<< <<Chars("shoulder_flexion"), FromInt(100)>> >>,
                                    Some(9))>> >> }
    /\ gr_result = None
    /\ cmIdle /\ agIdle /\ gaIdle /\ anIdle /\ caIdle
    /\ tables = ReferenceTables

CallGenerateRecommendations ==
    /\ gr_result = None
    /\ gr_result' = Some(generate_recommendations(gr_classification, gr_flags,
                                                  gr_metrics))
    /\ UNCHANGED <<gr_classification, gr_flags, gr_metrics, cmVars, agVars,
                   gaVars, anVars, caVars, tables>>

SpecRecommend == InitRecommend /\ [][CallGenerateRecommendations]_vars

-----------------------------------------------------------------------------
(* Calls of comprehensive_analysis: one step for lines 496-500, one for     *)
(* each domain block and one for the aggregation and the return.            *)

\* the mappings a domain argument is taken from, besides None and {}
RomSamples ==
    { <<<<Chars("shoulder_flexion"), Dec(165, 1)>>>>,
      <<<<Chars("shoulder_flexion"), Dec(100, 1)>>, <<Chars("elbow_flexion"), Dec(100, 1)>>,
        <<Chars("hip_flexion"), Dec(120, 1)>>>>,
      <<<<Chars("shoulder_flexion"), Dec(165, 1)>>, <<Chars("elbow_flexion"), Dec(100, 1)>>,
        <<Chars("hip_flexion"), Dec(120, 1)>>>>,
      <<<<Chars("knee_extension"), Dec(6, 1)>>>>,
      <<<<Chars("grip_strength"), Dec(30, 1)>>>> }

BalanceSamples ==
    { <<<<Chars("stability_score"), Dec(35, 1)>>>>,
      <<<<Chars("stability_score"), Dec(75, 1)>>,
        <<Chars("single_leg_stance_time"), Dec(125, 10)>>,
        <<Chars("sway_magnitude"), Dec(11, 1000)>>>>,
      <<<<Chars("stability"), Dec(35, 1)>>>> }

SymmetrySamples ==
    { <<<<Chars("shoulder_symmetry"), Dec(30, 10)>>, <<Chars("elbow_symmetry"), Dec(25, 10)>>,
        <<Chars("knee_symmetry"), Dec(28, 10)>>>>,
      <<<<Chars("shoulder_symmetry"), Dec(95, 10)>>, <<Chars("knee_symmetry"), Dec(85, 10)>>>>,
      <<<<Chars("posture"), Dec(50, 10)>>>> }

GaitSamples ==
    { <<<<Chars("cadence"), Dec(155, 1)>>, <<Chars("stride_time"), Dec(75, 100)>>>>,
      <<<<Chars("cadence"), Dec(120, 1)>>, <<Chars("step_length"), Dec(29, 100)>>>>,
      <<<<Chars("foo"), Dec(1, 1)>>>> }

Optional(samples) == {None, Some(<<>>)} \cup {Some(d) : d \in samples}

Init ==
    /\ rom_data \in Optional(RomSamples)
    /\ balance_data \in Optional(BalanceSamples)
    /\ symmetry_data \in Optional(SymmetrySamples)
    /\ gait_data \in Optional(GaitSamples)
    /\ age \in {None, Some(7), Some(9), Some(12)}
    /\ pc = "call"
    /\ age_group = None /\ all_classifications = <<>> /\ all_flags = <<>>
    /\ all_z_scores = <<>> /\ metrics_analysis = <<>>
    /\ result = None /\ calls = <<>>
    /\ cmIdle /\ agIdle /\ gaIdle /\ anIdle /\ grIdle
    /\ tables = ReferenceTables

\* lines 496-500
Enter ==
    /\ pc = "call"
    /\ age_group' = Some(get_age_group(age))
    /\ all_classifications' = <<>>
    /\ all_flags' = <<>>
    /\ all_z_scores' = <<>>
    /\ metrics_analysis' = <<>>
    /\ pc' = "rom"
    /\ UNCHANGED <<caArgs, result, cmVars, agVars, gaVars, anVars, grVars,
                   calls, tables>>

\* One domain block: skipped when the argument is None or empty; otherwise
\* the analysis is stored and its flags, z-scores and, unless it is
\* Insufficient data, its classification are collected.
DomainBlock(domain, data, analysis) ==
    IF Truthy(data)
    THEN /\ metrics_analysis' = Put(metrics_analysis, domain, analysis)
         /\ all_flags' = all_flags \o analysis.flags
         /\ all_z_scores' =
                Update(all_z_scores,
                       Prefixed(IF domain = "rom" THEN Chars("rom_")
                                ELSE IF domain = "balance" THEN Chars("balance_")
                                ELSE IF domain = "symmetry" THEN Chars("symmetry_")
                                ELSE Chars("gait_"),
                                analysis.z_scores))
         /\ all_classifications' =
                IF analysis.overall_classification # INSUFFICIENT_DATA
                THEN Append(all_classifications,
                            <<analysis.overall_classification,
                              analysis.confidence>>)
                ELSE all_classifications
    ELSE UNCHANGED <<metrics_analysis, all_flags, all_z_scores,
                     all_classifications>>

\* lines 503-514
RomBlock ==
    /\ pc = "rom"
    /\ DomainBlock("rom", rom_data, analyze_rom(rom_data[1], age))
    /\ pc' = "balance"
    /\ UNCHANGED <<caArgs, age_group, result, cmVars, agVars, gaVars, anVars,
                   grVars, calls, tables>>

\* lines 516-526
BalanceBlock ==
    /\ pc = "balance"
    /\ DomainBlock("balance", balance_data, analyze_balance(balance_data[1], age))
    /\ pc' = "symmetry"
    /\ UNCHANGED <<caArgs, age_group, result, cmVars, agVars, gaVars, anVars,
                   grVars, calls, tables>>

\* lines 528-538
SymmetryBlock ==
    /\ pc = "symmetry"
    /\ DomainBlock("symmetry", symmetry_data,
                   analyze_symmetry(symmetry_data[1], age))
    /\ pc' = "gait"
    /\ UNCHANGED <<caArgs, age_group, result, cmVars, agVars, gaVars, anVars,
                   grVars, calls, tables>>

\* lines 540-550
GaitBlock ==
    /\ pc = "gait"
    /\ DomainBlock("gait", gait_data, analyze_gait(gait_data[1], age))
    /\ pc' = "return"
    /\ UNCHANGED <<caArgs, age_group, result, cmVars, agVars, gaVars, anVars,
                   grVars, calls, tables>>

\* lines 552-570
Return ==
    /\ pc = "return"
    /\ LET overall == aggregate_classifications(all_classifications)
           recommendations ==
               generate_recommendations(overall[1], all_flags, metrics_analysis)
       IN  result' = Some(AnalysisResult(overall[1], Round1(overall[2]),
                                         metrics_analysis, age_group[1],
                                         recommendations, all_flags,
                                         all_z_scores))
    /\ pc' = "done"
    /\ UNCHANGED <<caArgs, caLocals, cmVars, agVars, gaVars, anVars, grVars,
                   calls, tables>>

Next == Enter \/ RomBlock \/ BalanceBlock \/ SymmetryBlock \/ GaitBlock \/ Return

Spec == Init /\ [][Next]_vars

-----------------------------------------------------------------------------
(* Calls of comprehensive_analysis with the sessions of the test suite.     *)

\* the arguments of test_normal_case, test_borderline_case and
\* test_weakness_case
Sessions ==
    [normal |->
        [rom_data |-> Some(<< <<Chars("shoulder_flexion"), FromInt(165)>>,
                              <<Chars("elbow_flexion"), FromInt(145)>>,
                              <<Chars("hip_flexion"), FromInt(120)>>,
                              <<Chars("knee_flexion"), FromInt(135)>> >>),
         balance_data |-> Some(<< <<Chars("stability_score"), FromInt(75)>>,
                                  <<Chars("single_leg_stance_time"), Dec(125, 10)>>,
                                  <<Chars("sway_magnitude"), Dec(11, 1000)>> >>),
         symmetry_data |-> Some(<< <<Chars("shoulder_symmetry"), Dec(30, 10)>>,
                                   <<Chars("elbow_symmetry"), Dec(25, 10)>>,
                                   <<Chars("knee_symmetry"), Dec(28, 10)>> >>),
         gait_data |-> None,
         age |-> Some(9)],
     borderline |->
        [rom_data |-> Some(<< <<Chars("shoulder_flexion"), FromInt(148)>>,
                              <<Chars("elbow_flexion"), FromInt(133)>>,
                              <<Chars("knee_flexion"), FromInt(123)>> >>),
         balance_data |-> Some(<< <<Chars("stability_score"), FromInt(55)>>,
                                  <<Chars("single_leg_stance_time"), Dec(60, 10)>> >>),
         symmetry_data |-> Some(<< <<Chars("shoulder_symmetry"), Dec(95, 10)>>,
                                   <<Chars("knee_symmetry"), Dec(85, 10)>> >>),
         gait_data |-> None,
         age |-> Some(8)],
     weakness |->
        [rom_data |-> Some(<< <<Chars("shoulder_flexion"), FromInt(135)>>,
                              <<Chars("elbow_flexion"), FromInt(125)>>,
                              <<Chars("hip_flexion"), FromInt(95)>>,
                              <<Chars("knee_flexion"), FromInt(115)>> >>),
         balance_data |-> Some(<< <<Chars("stability_score"), FromInt(35)>>,
                                  <<Chars("single_leg_stance_time"), Dec(25, 10)>>,
                                  <<Chars("sway_magnitude"), Dec(28, 1000)>> >>),
         symmetry_data |-> Some(<< <<Chars("shoulder_symmetry"), Dec(150, 10)>>,
                                   <<Chars("elbow_symmetry"), Dec(120, 10)>>,
                                   <<Chars("hip_symmetry"), Dec(180, 10)>> >>),
         gait_data |-> Some(<< <<Chars("cadence"), FromInt(125)>>,
                               <<Chars("step_length"), Dec(28, 100)>> >>),
         age |-> Some(7)]]

\* Each domain's mapping is taken from any of the three tests or left out,
\* at the age of any of them.
InitSession ==
    /\ rom_data \in {None} \cup {Sessions[t].rom_data : t \in DOMAIN Sessions}
    /\ balance_data \in {None} \cup {Sessions[t].balance_data : t \in DOMAIN Sessions}
    /\ symmetry_data \in {None} \cup {Sessions[t].symmetry_data : t \in DOMAIN Sessions}
    /\ gait_data \in {Sessions[t].gait_data : t \in DOMAIN Sessions}
    /\ age \in {Sessions[t].age : t \in DOMAIN Sessions}
    /\ pc = "call"
    /\ age_group = None /\ all_classifications = <<>> /\ all_flags = <<>>
    /\ all_z_scores = <<>> /\ metrics_analysis = <<>>
    /\ result = None /\ calls = <<>>
    /\ cmIdle /\ agIdle /\ gaIdle /\ anIdle /\ grIdle
    /\ tables = ReferenceTables

SpecSession == InitSession /\ [][Next]_vars

-----------------------------------------------------------------------------
(* Calls of comprehensive_analysis running concurrently.  Each call has     *)
(* its arguments, its position and its local variables, as in Spec; a step  *)
(* is one block of one call.  The tables are module-level: the analyzers    *)
(* read them (lines 240, 308, 367, 432) and nothing assigns to them.        *)

MaxCalls == 2

\* the variables a step of call c works on, if all_flags were one list of
\* the module: every call takes over what the first call has collected
Working_shared(all, c) == [all[c] EXCEPT !.all_flags = all[1].all_flags]

\* the variables a step of call c works on: its own
Working(all, c) == all[c]

\* one domain block (lines 503-550) on the variables of a call
Block(call, domain, data, analysis) ==
    IF Truthy(data)
    THEN [call EXCEPT
            !.metrics_analysis = Put(@, domain, analysis),
            !.all_flags = @ \o analysis.flags,
            !.all_z_scores =
                Update(@, Prefixed(Chars(domain) \o Chars("_"), analysis.z_scores)),
            !.all_classifications =
                IF analysis.overall_classification # INSUFFICIENT_DATA
                THEN Append(@, <<analysis.overall_classification,
                                 analysis.confidence>>)
                ELSE @]
    ELSE call

\* the next block of a call, by its position
StepOf(call) ==
    IF call.pc = "call"
    THEN [call EXCEPT !.age_group = Some(get_age_group(call.age)),
                      !.all_classifications = <<>>, !.all_flags = <<>>,
                      !.all_z_scores = <<>>, !.metrics_analysis = <<>>,
                      !.pc = "rom"]
    ELSE IF call.pc = "rom"
    THEN [Block(call, "rom", call.rom_data,
                analyze_rom(call.rom_data[1], call.age))
            EXCEPT !.pc = "balance"]
    ELSE IF call.pc = "balance"
    THEN [Block(call, "balance", call.balance_data,
                analyze_balance(call.balance_data[1], call.age))
            EXCEPT !.pc = "symmetry"]
    ELSE IF call.pc = "symmetry"
    THEN [Block(call, "symmetry", call.symmetry_data,
                analyze_symmetry(call.symmetry_data[1], call.age))
            EXCEPT !.pc = "gait"]
    ELSE IF call.pc = "gait"
    THEN [Block(call, "gait", call.gait_data,
                analyze_gait(call.gait_data[1], call.age))
            EXCEPT !.pc = "return"]
    ELSE LET overall == aggregate_classifications(call.all_classifications)
         IN  [call EXCEPT
                !.result =
                    Some(AnalysisResult(overall[1], Round1(overall[2]),
                                        call.metrics_analysis, call.age_group[1],
                                        generate_recommendations(
                                            overall[1], call.all_flags,
                                            call.metrics_analysis),
                                        call.all_flags, call.all_z_scores)),
                !.pc = "done"]

\* a call from its first line to its return, with no other call running
RECURSIVE Run(_)
Run(call) == IF call.pc = "done" THEN call ELSE Run(StepOf(call))

\* MaxCalls calls, each with the arguments of one of the tests
InitConcurrent ==
    /\ calls \in [1..MaxCalls ->
                    { Sessions[t] @@ [pc |-> "call", age_group |-> None,
                                      all_classifications |-> <<>>,
                                      all_flags |-> <<>>, all_z_scores |-> <<>>,
                                      metrics_analysis |-> <<>>, result |-> None]
                      : t \in DOMAIN Sessions }]
    /\ tables = ReferenceTables
    /\ rom_data = None /\ balance_data = None /\ symmetry_data = None
    /\ gait_data = None /\ age = None
    /\ pc = "" /\ age_group = None /\ all_classifications = <<>>
    /\ all_flags = <<>> /\ all_z_scores = <<>> /\ metrics_analysis = <<>>
    /\ result = None
    /\ cmIdle /\ agIdle /\ gaIdle /\ anIdle /\ grIdle

\* one call that has not returned runs its next block
StepCall ==
    /\ \E c \in DOMAIN calls :
          /\ calls[c].pc # "done"
          /\ calls' = [calls EXCEPT ![c] = StepOf(Working(calls, c))]
    /\ UNCHANGED <<tables, caArgs, pc, caLocals, result, cmVars, agVars,
                   gaVars, anVars, grVars>>

SpecConcurrent == InitConcurrent /\ [][StepCall]_vars

-----------------------------------------------------------------------------
(* Properties of classify_metric, checked on SpecClassify.                  *)

\* C1: for every value and every range classify_metric returns exactly one
\* of four pairs, chosen by whether the value lies in [min_normal,
\* max_normal] and by |z|: inside and |z| <= 1.0 gives (Normal, 95.0),
\* inside and |z| > 1.0 gives (Normal, 80.0), outside and |z| <= 2.0 gives
\* (Borderline, 70.0), outside and |z| > 2.0 gives (Weakness suspected,
\* 85.0); Insufficient data and any other confidence are never returned.
\* |z| is the z-score as the floating-point arithmetic gives it.
C1_FourFixedPairs ==
    cm_result # None =>
        LET inside == FLe(cm_range.min_normal, cm_value)
                      /\ FLe(cm_value, cm_range.max_normal)
            z == get_z_score(cm_range, cm_value)
            absz == IF z.s = 1 THEN FNeg(z) ELSE z
        IN  /\ inside /\ FLe(absz, F1) => cm_result = <<NORMAL, F95>>
            /\ inside /\ FGt(absz, F1) => cm_result = <<NORMAL, F80>>
            /\ ~inside /\ FLe(absz, F2) => cm_result = <<BORDERLINE, F70>>
            /\ ~inside /\ FGt(absz, F2) => cm_result = <<WEAKNESS_SUSPECTED, F85>>
            /\ cm_result \in {<<NORMAL, F95>>, <<NORMAL, F80>>,
                              <<BORDERLINE, F70>>, <<WEAKNESS_SUSPECTED, F85>>}
            /\ cm_result[1] # INSUFFICIENT_DATA

\* a value on the lower end of its normal interval, more than one standard
\* deviation from the mean, has been classified (Normal, 80.0)
C1_Witness ==
    /\ cm_result = <<NORMAL, F80>>
    /\ cm_value = cm_range.min_normal
    /\ FGt(FAbs(get_z_score(cm_range, cm_value)), F1)

\* C17: every range of the four reference tables (ROM, balance and gait
\* for the age groups 5-7, 8-10 and 11-13, symmetry for all_ages) has
\* min_normal <= mean <= max_normal and std_dev >= 0.
C17_TablesWellFormed ==
    LET wellFormed(norm) ==
            /\ FLe(norm.min_normal, norm.mean)
            /\ FLe(norm.mean, norm.max_normal)
            /\ FLe(F0, norm.std_dev)
        all(table, groups, size) ==
            /\ DOMAIN table = groups
            /\ \A g \in groups :
                  /\ Len(table[g]) = size
                  /\ \A i \in 1..size : wellFormed(table[g][i].norm)
    IN  /\ all(ROM_NORMATIVE_DATA, AgeGroups, 6)
        /\ all(BALANCE_NORMATIVE_DATA, AgeGroups, 3)
        /\ all(SYMMETRY_NORMATIVE_DATA, {"all_ages"}, 5)
        /\ all(GAIT_NORMATIVE_DATA, AgeGroups, 3)
        /\ (cm_range \in {e.norm : e \in TableEntries}) => wellFormed(cm_range)

\* a value equal to the mean of a table's range, here the knee_extension
\* range with mean 0 between -5 and 5, has been classified (Normal, 95.0)
C17_Witness ==
    /\ cm_result = <<NORMAL, F95>>
    /\ cm_range = ROM_NORMATIVE_DATA["8-10"][6].norm
    /\ cm_range.min_normal = FromInt(-5)
    /\ cm_value = cm_range.mean
    /\ IsZero(cm_value)

\* C29: for a range whose std_dev is 0 the z-score of every value is 0, so
\* classify_metric never returns Weakness suspected for it: a value inside
\* [min_normal, max_normal] gives (Normal, 95.0) and every value outside,
\* however far from the mean, gives (Borderline, 70.0).
C29_ZeroStdDev ==
    (cm_result # None /\ IsZero(cm_range.std_dev)) =>
        /\ get_z_score(cm_range, cm_value) = FZero
        /\ cm_result[1] # WEAKNESS_SUSPECTED
        /\ is_within_normal(cm_range, cm_value) => cm_result = <<NORMAL, F95>>
        /\ ~is_within_normal(cm_range, cm_value)
              => cm_result = <<BORDERLINE, F70>>

\* the value 200 has been classified against the range of mean 10 and
\* std_dev 0 with the interval [5, 15]: 190 away from the mean, Borderline
C29_Witness ==
    /\ cm_result = <<BORDERLINE, F70>>
    /\ IsZero(cm_range.std_dev)
    /\ cm_range.mean = FromInt(10)
    /\ cm_range.max_normal = FromInt(15)
    /\ cm_value = FromInt(200)

-----------------------------------------------------------------------------
(* Properties of get_age_group, checked on SpecAge.                         *)

\* C6: get_age_group is total onto three labels: no age gives "8-10", an
\* age <= 7 (0 and negative ages too) gives "5-7", 8 <= age <= 10 gives
\* "8-10" and any age > 10 gives "11-13"; so 7, 8, 10, 11 resolve to "5-7",
\* "8-10", "8-10", "11-13" and 6, 9, 12 to three different groups.
C6_AgeGroupTotal ==
    /\ ga_result # None =>
          /\ ga_result[1] \in {"5-7", "8-10", "11-13"}
          /\ ga_age = None => ga_result[1] = "8-10"
          /\ ga_age # None /\ ga_age[1] <= 7 => ga_result[1] = "5-7"
          /\ ga_age # None /\ 8 <= ga_age[1] /\ ga_age[1] <= 10
                => ga_result[1] = "8-10"
          /\ ga_age # None /\ ga_age[1] > 10 => ga_result[1] = "11-13"
    /\ get_age_group(Some(7)) = "5-7"
    /\ get_age_group(Some(8)) = "8-10"
    /\ get_age_group(Some(10)) = "8-10"
    /\ get_age_group(Some(11)) = "11-13"
    /\ get_age_group(None) = "8-10"
    /\ Cardinality({get_age_group(Some(a)) : a \in {6, 9, 12}}) = 3

\* a negative age has been resolved to the youngest group
C6_Witness == ga_age # None /\ ga_age[1] < 0 /\ ga_result = Some("5-7")

-----------------------------------------------------------------------------
(* Properties of aggregate_classifications, checked on SpecAggregate and,   *)
(* for the order of the entries, on SpecAggregateOrder.                     *)

\* C3: aggregate_classifications decides by a first-match order on the
\* confidence-weighted proportions, not by the largest one: a Weakness
\* proportion strictly above 0.30 gives Weakness suspected with that
\* proportion * 100 as confidence, whatever the other proportions;
\* otherwise a Borderline proportion strictly above 0.40 gives Borderline;
\* otherwise the result is Normal with the Normal proportion * 100.  A
\* proportion equal to 0.30 (0.40) does not take the Weakness (Borderline)
\* branch.  The proportions are the ones the floating-point sums and
\* divisions give, in the order of the entries.
C3_FirstMatchOrder ==
    (ag_result # None /\ ag_result[1] # INSUFFICIENT_DATA) =>
        LET counts == WeightedCounts(ag_list, 1, NoCounts)
            p == [k \in {NORMAL, BORDERLINE, WEAKNESS_SUSPECTED} |->
                     FDiv(counts[k], counts.total_weight)]
        IN  /\ FGt(p[WEAKNESS_SUSPECTED], F030)
                 => ag_result = <<WEAKNESS_SUSPECTED,
                                  FMul100(p[WEAKNESS_SUSPECTED])>>
            /\ (~FGt(p[WEAKNESS_SUSPECTED], F030) /\ FGt(p[BORDERLINE], F040))
                 => ag_result = <<BORDERLINE, FMul100(p[BORDERLINE])>>
            /\ (~FGt(p[WEAKNESS_SUSPECTED], F030) /\ ~FGt(p[BORDERLINE], F040))
                 => ag_result = <<NORMAL, FMul100(p[NORMAL])>>
            /\ p[WEAKNESS_SUSPECTED] = F030 => ag_result[1] # WEAKNESS_SUSPECTED
            /\ p[BORDERLINE] = F040 => ag_result[1] # BORDERLINE

\* Weakness suspected has been returned although the Normal proportion is
\* the larger one
C3_Witness ==
    /\ ag_result # None
    /\ ag_result[1] = WEAKNESS_SUSPECTED
    /\ LET counts == WeightedCounts(ag_list, 1, NoCounts)
       IN  FLt(counts[WEAKNESS_SUSPECTED], counts[NORMAL])

\* C4: aggregate_classifications returns (Insufficient data, 0.0) for the
\* empty sequence and when the Normal/Borderline/Weakness entries have no
\* weight (only Insufficient-data entries, or only entries of confidence
\* 0); with at least one Normal/Borderline/Weakness entry of positive
\* confidence it never returns Insufficient data.  Insufficient-data
\* entries are ignored: the result is that of the sequence without them.
C4_InsufficientData ==
    ag_result # None =>
        LET counted(e) == e[1] \in {NORMAL, BORDERLINE, WEAKNESS_SUSPECTED}
            weighs(e) == counted(e) /\ FGt(e[2], F0)
            some == \E i \in 1..Len(ag_list) : weighs(ag_list[i])
        IN  /\ ag_list = <<>> => ag_result = <<INSUFFICIENT_DATA, F0>>
            /\ ~some => ag_result = <<INSUFFICIENT_DATA, F0>>
            /\ some => ag_result[1] # INSUFFICIENT_DATA
            /\ ag_result = aggregate_classifications(SelectSeq(ag_list, counted))

\* a sequence of an Insufficient-data entry and a zero-confidence entry has
\* been aggregated to (Insufficient data, 0.0)
C4_Witness ==
    /\ ag_result = <<INSUFFICIENT_DATA, F0>>
    /\ \E i \in 1..Len(ag_list) : ag_list[i][1] = INSUFFICIENT_DATA
    /\ \E i \in 1..Len(ag_list) : ag_list[i] = <<NORMAL, F0>>

\* C5: aggregate_classifications is invariant to the order of its input:
\* a sequence and a permutation of it (here: two neighbours exchanged) give
\* the same classification and the same confidence.
C5_OrderInvariant == ag_before # None => ag_result = ag_before

-----------------------------------------------------------------------------
(* Properties of the domain analyzers, checked on SpecDomain.               *)

\* C2: the |z| <= 2.0 boundary is inclusive: analyze_balance of
\* {stability_score: 35} at age 7 uses the 5-7 range (mean 65, std 15, min
\* 40, max 90), the value is outside the interval with |z| exactly 2.0, the
\* metric is (Borderline, 70.0) and not Weakness suspected, the domain
\* result is Borderline and has exactly one flag, a 'Borderline balance' one.
C2_InclusiveBoundary ==
    (/\ an_domain = "balance"
     /\ an_data = <<<<Chars("stability_score"), FromInt(35)>>>>
     /\ an_age = Some(7)
     /\ an_result # None) =>
        LET r == an_result[1]
            m == Get(r.individual_results, Chars("stability_score"))
        IN  /\ r.age_group = "5-7"
            /\ m.mean = FromInt(65)
            /\ m.normal_range = Chars("40-90")
            /\ BALANCE_NORMATIVE_DATA["5-7"][2].norm
                  = NormativeRange(<<65, 1>>, <<15, 1>>, <<40, 1>>, <<90, 1>>)
            /\ m.value = FromInt(35)
            /\ FLt(m.value, BALANCE_NORMATIVE_DATA["5-7"][2].norm.min_normal)
            /\ m.z_score = FNeg(F2)
            /\ m.classification = BORDERLINE
            /\ m.confidence = F70
            /\ r.overall_classification = BORDERLINE
            /\ r.flags
                  = <<Chars("Borderline balance: stability_score = 35.0")>>

\* the call of scenario B has returned, with its one metric Borderline
C2_Witness ==
    /\ an_domain = "balance"
    /\ an_data = <<<<Chars("stability_score"), FromInt(35)>>>>
    /\ an_age = Some(7)
    /\ an_result # None
    /\ Get(an_result[1].individual_results,
           Chars("stability_score")).classification = BORDERLINE

\* C8: in every domain analyzer a metric whose name matches no entry of the
\* normative table is skipped silently: it has no entry in
\* individual_results, none in z_scores, no flag and no pair in the
\* aggregation, and the result is the one of the call without that metric.
C8_UnmatchedSkipped ==
    an_result # None =>
        LET r == an_result[1]
            table == IF an_domain = "rom" THEN ROM_NORMATIVE_DATA
                     ELSE IF an_domain = "balance" THEN BALANCE_NORMATIVE_DATA
                     ELSE GAIT_NORMATIVE_DATA
            entries == IF an_domain = "symmetry"
                       THEN SYMMETRY_NORMATIVE_DATA["all_ages"]
                       ELSE table[get_age_group(an_age)]
            spaced(name) == replace(lower(name), "_", " ")
            joined(name) == replace(lower(name), " ", "_")
            matches(name) ==
                \E i \in 1..Len(entries) :
                    LET key == entries[i].key
                    IN  IF an_domain = "rom"
                        THEN \/ Contains(replace(key, "_", " "), spaced(name))
                             \/ Contains(spaced(name), replace(key, "_", " "))
                        ELSE IF an_domain = "symmetry"
                        THEN \/ Contains(joined(name), key)
                             \/ Contains(key, joined(name))
                        ELSE key = joined(name)
            supplied(item) == matches(item[1])
            kept == SelectSeq(an_data, supplied)
        IN  /\ \A i \in 1..Len(an_data) :
                  ~matches(an_data[i][1])
                     => /\ ~HasKey(r.individual_results, an_data[i][1])
                        /\ ~HasKey(r.z_scores, an_data[i][1])
            /\ Keys(r.individual_results) = Keys(kept)
            /\ Keys(r.z_scores) = Keys(kept)
            /\ Len(r.flags) <= Len(kept)
            /\ r = IF an_domain = "rom" THEN analyze_rom(kept, an_age)
                   ELSE IF an_domain = "balance" THEN analyze_balance(kept, an_age)
                   ELSE IF an_domain = "symmetry"
                   THEN analyze_symmetry(kept, an_age)
                   ELSE analyze_gait(kept, an_age)

\* a gait call with a matched and an unmatched metric has returned a result
\* with one per-metric entry
C8_Witness ==
    /\ an_domain = "gait"
    /\ an_result # None
    /\ Len(an_data) = 2
    /\ an_data[1][1] = Chars("cadence_left")
    /\ an_data[2][1] = Chars("cadence")
    /\ Keys(an_result[1].individual_results) = <<Chars("cadence")>>

\* C10: a domain with three matched metrics, two of them (Weakness
\* suspected, 85.0) and one (Normal, 95.0), is Weakness suspected with the
\* weighted proportion 1.70/2.65, a confidence of 64.2 after rounding.
C10_TwoWeaknessOneNormal ==
    an_result # None =>
        LET r == an_result[1]
            n == Len(r.individual_results)
            with(c, f) == { i \in 1..n :
                              /\ r.individual_results[i][2].classification = c
                              /\ r.individual_results[i][2].confidence = f }
        IN  (/\ n = 3
             /\ Cardinality(with(WEAKNESS_SUSPECTED, F85)) = 2
             /\ Cardinality(with(NORMAL, F95)) = 1)
            => /\ r.overall_classification = WEAKNESS_SUSPECTED
               /\ r.confidence = Dec(642, 10)
               /\ r.confidence = Round1(FMul100(FDiv(Dec(170, 100), Dec(265, 100))))

\* the ROM call of scenario D has returned Weakness suspected
C10_Witness ==
    /\ an_domain = "rom"
    /\ an_data = << <<Chars("shoulder_flexion"), FromInt(100)>>,
                    <<Chars("elbow_flexion"), FromInt(100)>>,
                    <<Chars("hip_flexion"), FromInt(120)>> >>
    /\ an_age = None
    /\ an_result # None
    /\ an_result[1].overall_classification = WEAKNESS_SUSPECTED
    /\ Len(an_result[1].flags) = 2

\* C23: an analyzer appends a flag for a matched metric exactly when the
\* metric is classified Borderline or Weakness suspected: one flag for each
\* such metric, none for a Normal one, in the order in which the input
\* gives the metrics; so there are at most as many flags as matched metrics
\* and at most as many matched metrics as input metrics.
C23_FlagPerAbnormalMetric ==
    an_result # None =>
        LET r == an_result[1]
            matched(item) == HasKey(r.individual_results, item[1])
            abnormal(item) ==
                item[2].classification \in {BORDERLINE, WEAKNESS_SUSPECTED}
            flagged == SelectSeq(r.individual_results, abnormal)
            opening(c) ==
                IF c = BORDERLINE
                THEN IF an_domain = "rom" THEN Chars("Borderline ROM in ")
                     ELSE IF an_domain = "balance" THEN Chars("Borderline balance: ")
                     ELSE IF an_domain = "symmetry"
                     THEN Chars("Borderline asymmetry in ")
                     ELSE Chars("Borderline gait: ")
                ELSE IF an_domain = "rom" THEN Chars("Limited ROM in ")
                     ELSE IF an_domain = "balance" THEN Chars("Poor balance: ")
                     ELSE IF an_domain = "symmetry"
                     THEN Chars("Significant asymmetry in ")
                     ELSE Chars("Abnormal gait: ")
            starts(flag, text) ==
                Len(text) <= Len(flag) /\ SubSeq(flag, 1, Len(text)) = text
        IN  /\ Keys(r.individual_results) = Keys(SelectSeq(an_data, matched))
            /\ \A i \in 1..Len(r.individual_results) :
                  r.individual_results[i][2].classification
                      \in {NORMAL, BORDERLINE, WEAKNESS_SUSPECTED}
            /\ Len(r.flags) = Len(flagged)
            /\ \A j \in 1..Len(flagged) :
                  starts(r.flags[j],
                         opening(flagged[j][2].classification) \o flagged[j][1])
            /\ Len(r.flags) <= Len(r.individual_results)
            /\ Len(r.individual_results) <= Len(an_data)

\* a ROM call at age 7 with a Normal, a Borderline and a Weakness-suspected
\* metric, in this order, has returned with two flags
C23_Witness ==
    /\ an_domain = "rom"
    /\ an_age = Some(7)
    /\ an_data = << <<Chars("shoulder_flexion"), FromInt(170)>>,
                    <<Chars("knee_extension"), FromInt(6)>>,
                    <<Chars("elbow_flexion"), FromInt(100)>> >>
    /\ an_result # None
    /\ an_result[1].individual_results[1][2].classification = NORMAL
    /\ an_result[1].flags
          = << Chars("Borderline ROM in knee_extension: 6.0") \o Degree,
               Chars("Limited ROM in elbow_flexion: 100.0") \o Degree
               \o Chars(" (normal: 130-160") \o Degree \o Chars(")") >>

-----------------------------------------------------------------------------
(* Properties of the matching of names, checked on SpecMatch.               *)

\* C24: analyze_rom classifies a name against the first key, in the table
\* order shoulder_flexion, shoulder_abduction, elbow_flexion, hip_flexion,
\* knee_flexion, knee_extension, that is part of the normalised name or
\* has the normalised name as a part: "knee" goes to knee_flexion,
\* "flexion" to shoulder_flexion, "hip" to hip_flexion, and
\* shoulder_flexion_left and shoulder_flexion_right each have their own
\* record against shoulder_flexion.  analyze_balance and analyze_gait take
\* a name only when its normalised form is a key: "stability" and
\* "cadence_left" are skipped.
C24_FirstKeyMatch ==
    an_result # None =>
        LET r == an_result[1]
            group == get_age_group(an_age)
            entries == IF an_domain = "rom" THEN ROM_NORMATIVE_DATA[group]
                       ELSE IF an_domain = "balance"
                       THEN BALANCE_NORMATIVE_DATA[group]
                       ELSE GAIT_NORMATIVE_DATA[group]
            spaced(name) == replace(lower(name), "_", " ")
            joined(name) == replace(lower(name), " ", "_")
            hits(name) ==
                { k \in 1..Len(entries) :
                    IF an_domain = "rom"
                    THEN \/ Contains(replace(entries[k].key, "_", " "), spaced(name))
                         \/ Contains(spaced(name), replace(entries[k].key, "_", " "))
                    ELSE entries[k].key = joined(name) }
            first(name) == CHOOSE k \in hits(name) : \A h \in hits(name) : k <= h
            against(name, value, key) ==
                /\ \E k \in 1..Len(entries) : entries[k].key = key
                /\ LET norm == entries[CHOOSE k \in 1..Len(entries) :
                                          entries[k].key = key].norm
                       m == Get(r.individual_results, name)
                   IN  /\ m.mean = norm.mean
                       /\ m.normal_range = NormalRangeText(an_domain, norm)
                       /\ m.value = value
                       /\ m.z_score = get_z_score(norm, value)
                       /\ <<m.classification, m.confidence>>
                             = classify_metric(value, norm)
            named(name, key) ==
                \A i \in 1..Len(an_data) :
                    an_data[i][1] = Chars(name)
                        => /\ HasKey(r.individual_results, an_data[i][1])
                           /\ against(an_data[i][1], an_data[i][2], Chars(key))
            skipped(name) == ~HasKey(r.individual_results, Chars(name))
        IN  /\ an_domain = "rom" =>
                  [k \in 1..Len(entries) |-> entries[k].key]
                     = << Chars("shoulder_flexion"), Chars("shoulder_abduction"),
                          Chars("elbow_flexion"), Chars("hip_flexion"),
                          Chars("knee_flexion"), Chars("knee_extension") >>
            /\ \A i \in 1..Len(an_data) :
                  LET name == an_data[i][1]
                  IN  IF hits(name) = {}
                      THEN /\ ~HasKey(r.individual_results, name)
                           /\ ~HasKey(r.z_scores, name)
                      ELSE /\ HasKey(r.individual_results, name)
                           /\ against(name, an_data[i][2],
                                      entries[first(name)].key)
            /\ an_domain = "rom" =>
                  /\ named("knee", "knee_flexion")
                  /\ named("flexion", "shoulder_flexion")
                  /\ named("hip", "hip_flexion")
                  /\ named("shoulder_flexion_left", "shoulder_flexion")
                  /\ named("shoulder_flexion_right", "shoulder_flexion")
            /\ an_domain # "rom" =>
                  /\ skipped("stability")
                  /\ skipped("cadence_left")

\* a ROM call with the names "knee" and "flexion" has returned: at age 7
\* the first has the mean 135 of knee_flexion, the second the mean 165 of
\* shoulder_flexion
C24_Witness ==
    /\ an_domain = "rom"
    /\ an_age = Some(7)
    /\ an_data = << <<Chars("knee"), FromInt(135)>>,
                    <<Chars("flexion"), FromInt(165)>> >>
    /\ an_result # None
    /\ Get(an_result[1].individual_results, Chars("knee")).mean = FromInt(135)
    /\ Get(an_result[1].individual_results, Chars("knee")).normal_range
          = Chars("120-150") \o Degree
    /\ Get(an_result[1].individual_results, Chars("flexion")).mean
          = FromInt(165)
    /\ an_result[1].flags = <<>>

-----------------------------------------------------------------------------
(* Properties of comprehensive_analysis, checked on Spec.                   *)

\* C7: a domain argument that is None or an empty mapping is skipped
\* entirely: metrics_analysis has no key for it and it adds nothing to the
\* aggregation, the flags or the z-scores; metrics_analysis has the key
\* rom/balance/symmetry/gait exactly for the non-empty arguments.
C7_EmptyDomainsSkipped ==
    LET order == <<"rom", "balance", "symmetry", "gait">>
        arg == [rom |-> rom_data, balance |-> balance_data,
                symmetry |-> symmetry_data, gait |-> gait_data]
        at == [call |-> 0, rom |-> 0, balance |-> 1, symmetry |-> 2,
               gait |-> 3, return |-> 4, done |-> 4]
        passed(i) == i <= at[pc]
        given(i) == arg[order[i]] # None /\ arg[order[i]] # Some(<<>>)
        present == SelectSeq(<<1, 2, 3, 4>>, LAMBDA i : passed(i) /\ given(i))
        analysis(k) == metrics_analysis[k][2]
        RECURSIVE flagsFrom(_), zFrom(_), votesFrom(_)
        flagsFrom(k) == IF k > Len(metrics_analysis) THEN <<>>
                        ELSE analysis(k).flags \o flagsFrom(k + 1)
        zFrom(k) == IF k > Len(metrics_analysis) THEN 0
                    ELSE Len(analysis(k).z_scores) + zFrom(k + 1)
        votesFrom(k) ==
            IF k > Len(metrics_analysis) THEN <<>>
            ELSE (IF analysis(k).overall_classification = INSUFFICIENT_DATA
                  THEN <<>>
                  ELSE << <<analysis(k).overall_classification,
                            analysis(k).confidence>> >>)
                 \o votesFrom(k + 1)
    IN  /\ Keys(metrics_analysis) = [i \in 1..Len(present) |-> order[present[i]]]
        /\ \A i \in 1..4 :
              (passed(i) /\ ~given(i)) => ~HasKey(metrics_analysis, order[i])
        /\ all_flags = flagsFrom(1)
        /\ Len(all_z_scores) = zFrom(1)
        /\ all_classifications = votesFrom(1)
        /\ pc = "done" =>
              /\ result[1].metrics_analysis = metrics_analysis
              /\ result[1].flags = all_flags
              /\ result[1].z_scores = all_z_scores

\* a call with no ROM argument, an empty balance mapping and two non-empty
\* domains has returned, with keys for the two only
C7_Witness ==
    /\ pc = "done"
    /\ rom_data = None
    /\ balance_data = Some(<<>>)
    /\ Keys(metrics_analysis) = <<"symmetry", "gait">>
    /\ all_flags # <<>>

\* C9: with gait data only, none of whose metric names matches a normative
\* entry, the gait result is Insufficient data with confidence 0.0 and the
\* overall result is Insufficient data with confidence 0.0: the domain is
\* left out of the cross-domain vote but keeps its entry in
\* metrics_analysis.
C9_GaitOnlyUnmatched ==
    LET entries == GAIT_NORMATIVE_DATA[get_age_group(age)]
        known(name) == \E i \in 1..Len(entries) :
                          entries[i].key = replace(lower(name), " ", "_")
        empty(data) == data = None \/ data = Some(<<>>)
    IN  (/\ pc = "done"
         /\ empty(rom_data) /\ empty(balance_data) /\ empty(symmetry_data)
         /\ ~empty(gait_data)
         /\ \A i \in 1..Len(gait_data[1]) : ~known(gait_data[1][i][1]))
        => /\ Keys(metrics_analysis) = <<"gait">>
           /\ Get(metrics_analysis, "gait").overall_classification
                 = INSUFFICIENT_DATA
           /\ Get(metrics_analysis, "gait").confidence = F0
           /\ all_classifications = <<>>
           /\ result[1].classification = INSUFFICIENT_DATA
           /\ result[1].confidence = F0
           /\ Get(result[1].metrics_analysis, "gait").individual_results = <<>>

\* the call of scenario C has returned Insufficient data
C9_Witness ==
    /\ pc = "done"
    /\ rom_data = None /\ balance_data = None /\ symmetry_data = None
    /\ gait_data = Some(<<<<Chars("foo"), FromInt(1)>>>>)
    /\ result[1].classification = INSUFFICIENT_DATA
    /\ HasKey(result[1].metrics_analysis, "gait")

\* C21: the symmetry analysis does not depend on the age: whatever age the
\* call is made with, the symmetry result is the one analyze_symmetry gives
\* for the same mapping with any other age or none, every record of it is
\* taken against an entry of the single all_ages table, and it has no
\* age_group field; the ROM, balance and gait results have the age group
\* of the call's age, the one the composite result has.
C21_SymmetryAgeIndependent ==
    pc = "done" =>
        /\ DOMAIN SYMMETRY_NORMATIVE_DATA = {"all_ages"}
        /\ \A k \in 1..Len(metrics_analysis) :
              LET analysis == metrics_analysis[k][2]
                  entries == SYMMETRY_NORMATIVE_DATA["all_ages"]
              IN  IF metrics_analysis[k][1] = "symmetry"
                  THEN /\ "age_group" \notin DOMAIN analysis
                       /\ \A other \in {None, Some(5), Some(13)} :
                              analyze_symmetry(symmetry_data[1], other) = analysis
                       /\ \A i \in 1..Len(analysis.individual_results) :
                              \E e \in 1..Len(entries) :
                                 LET m == analysis.individual_results[i][2]
                                 IN  /\ m.mean = entries[e].norm.mean
                                     /\ m.normal_range
                                           = NormalRangeText("symmetry",
                                                             entries[e].norm)
                                     /\ m.z_score
                                           = get_z_score(entries[e].norm, m.value)
                  ELSE /\ "age_group" \in DOMAIN analysis
                       /\ analysis.age_group = result[1].age_group
                       /\ analysis.age_group = get_age_group(age)

\* a call at age 12 with ROM and symmetry data has returned: the ROM result
\* and the composite result have the group 11-13, the symmetry result has
\* flagged a metric and has no age group
C21_Witness ==
    /\ pc = "done"
    /\ age = Some(12)
    /\ HasKey(metrics_analysis, "rom")
    /\ Get(metrics_analysis, "rom").age_group = "11-13"
    /\ result[1].age_group = "11-13"
    /\ HasKey(metrics_analysis, "symmetry")
    /\ Get(metrics_analysis, "symmetry").flags # <<>>
    /\ DOMAIN Get(metrics_analysis, "symmetry")
          = {"overall_classification", "confidence", "individual_results",
             "z_scores", "flags"}

\* C22: every confidence the engine produces lies between 0 and 100, both
\* included: the confidence of each per-metric record, of each domain
\* result, of each pair collected for the cross-domain vote and of the
\* composite result; and a confidence of 0 comes only with the
\* classification Insufficient data.
C22_ConfidenceRange ==
    LET bounded(c) == FLe(F0, c) /\ FLe(c, F100)
    IN  /\ \A k \in 1..Len(metrics_analysis) :
              LET analysis == metrics_analysis[k][2]
              IN  /\ bounded(analysis.confidence)
                  /\ IsZero(analysis.confidence)
                        => analysis.overall_classification = INSUFFICIENT_DATA
                  /\ \A i \in 1..Len(analysis.individual_results) :
                        LET m == analysis.individual_results[i][2]
                        IN  /\ bounded(m.confidence)
                            /\ ~IsZero(m.confidence)
                            /\ m.classification # INSUFFICIENT_DATA
        /\ \A k \in 1..Len(all_classifications) :
              /\ bounded(all_classifications[k][2])
              /\ ~IsZero(all_classifications[k][2])
        /\ pc = "done" =>
              /\ bounded(result[1].confidence)
              /\ IsZero(result[1].confidence)
                    => result[1].classification = INSUFFICIENT_DATA

\* a call has returned Normal with confidence 76.4, from a ROM domain of
\* confidence 30.9 and a balance domain of confidence 100.0, its gait
\* domain being Insufficient data with confidence 0.0
C22_Witness ==
    /\ pc = "done"
    /\ result[1].classification = NORMAL
    /\ result[1].confidence = Dec(764, 10)
    /\ Keys(metrics_analysis) = <<"rom", "balance", "gait">>
    /\ Get(metrics_analysis, "rom").confidence = Dec(309, 10)
    /\ Get(metrics_analysis, "balance").confidence = F100
    /\ Get(metrics_analysis, "gait").confidence = F0
    /\ Get(metrics_analysis, "gait").overall_classification = INSUFFICIENT_DATA

\* C25: the overall classification and confidence are the aggregate of the
\* supplied domains that are not Insufficient data, each with its rounded
\* confidence as weight, in the order rom, balance, symmetry, gait.  A
\* supplied domain none of whose metrics matched is Insufficient data: it
\* keeps its key and result in metrics_analysis, and the overall
\* classification and confidence are those of the same call made without
\* that domain.
C25_UnmatchedDomainNoEffect ==
    pc = "done" =>
        LET votes == SelectSeq(metrics_analysis,
                               LAMBDA item : item[2].overall_classification
                                                # INSUFFICIENT_DATA)
            overall == aggregate_classifications(
                           [k \in 1..Len(votes) |->
                               <<votes[k][2].overall_classification,
                                 votes[k][2].confidence>>])
            without(domain) ==
                Run([rom_data |-> IF domain = "rom" THEN None ELSE rom_data,
                     balance_data |->
                         IF domain = "balance" THEN None ELSE balance_data,
                     symmetry_data |->
                         IF domain = "symmetry" THEN None ELSE symmetry_data,
                     gait_data |-> IF domain = "gait" THEN None ELSE gait_data,
                     age |-> age, pc |-> "call", age_group |-> None,
                     all_classifications |-> <<>>, all_flags |-> <<>>,
                     all_z_scores |-> <<>>, metrics_analysis |-> <<>>,
                     result |-> None]).result[1]
        IN  /\ result[1].classification = overall[1]
            /\ result[1].confidence = Round1(overall[2])
            /\ \A k \in 1..Len(metrics_analysis) :
                  LET domain == metrics_analysis[k][1]
                      analysis == metrics_analysis[k][2]
                      other == without(domain)
                  IN  analysis.individual_results = <<>> =>
                         /\ Get(result[1].metrics_analysis, domain) = analysis
                         /\ ~HasKey(other.metrics_analysis, domain)
                         /\ other.classification = result[1].classification
                         /\ other.confidence = result[1].confidence
                         /\ analysis.overall_classification = INSUFFICIENT_DATA

\* a call with a ROM mapping that is Weakness suspected with confidence
\* 30.9 and a gait mapping of which no name matched has returned Weakness
\* suspected with confidence 100.0, the gait result being stored
C25_Witness ==
    /\ pc = "done"
    /\ Keys(result[1].metrics_analysis) = <<"rom", "gait">>
    /\ Get(metrics_analysis, "rom").overall_classification = WEAKNESS_SUSPECTED
    /\ Get(metrics_analysis, "rom").confidence = Dec(309, 10)
    /\ gait_data = Some(<<<<Chars("foo"), FromInt(1)>>>>)
    /\ Get(metrics_analysis, "gait").individual_results = <<>>
    /\ Get(metrics_analysis, "gait").overall_classification = INSUFFICIENT_DATA
    /\ result[1].classification = WEAKNESS_SUSPECTED
    /\ result[1].confidence = F100

\* C26: the composite result is Insufficient data exactly when no supplied
\* domain has a metric whose name matches an entry of its table.  When at
\* least one metric of one domain matches, the overall classification is
\* Normal, Borderline or Weakness suspected and the overall confidence is
\* above 0: every domain with a matched metric is classified, with a
\* confidence of at least 30.
C26_InsufficientIffNoMatch ==
    pc = "done" =>
        LET arg == [rom |-> rom_data, balance |-> balance_data,
                    symmetry |-> symmetry_data, gait |-> gait_data]
            group == get_age_group(age)
            entries == [rom |-> ROM_NORMATIVE_DATA[group],
                        balance |-> BALANCE_NORMATIVE_DATA[group],
                        symmetry |-> SYMMETRY_NORMATIVE_DATA["all_ages"],
                        gait |-> GAIT_NORMATIVE_DATA[group]]
            spaced(name) == replace(lower(name), "_", " ")
            joined(name) == replace(lower(name), " ", "_")
            matches(domain, name) ==
                \E i \in 1..Len(entries[domain]) :
                    LET key == entries[domain][i].key
                    IN  IF domain = "rom"
                        THEN \/ Contains(replace(key, "_", " "), spaced(name))
                             \/ Contains(spaced(name), replace(key, "_", " "))
                        ELSE IF domain = "symmetry"
                        THEN \/ Contains(joined(name), key)
                             \/ Contains(key, joined(name))
                        ELSE key = joined(name)
            matched(domain) ==
                /\ arg[domain] # None
                /\ \E i \in 1..Len(arg[domain][1]) :
                      matches(domain, arg[domain][1][i][1])
            some == \E domain \in DOMAIN arg : matched(domain)
        IN  /\ result[1].classification = INSUFFICIENT_DATA <=> ~some
            /\ some => /\ result[1].classification
                             \in {NORMAL, BORDERLINE, WEAKNESS_SUSPECTED}
                       /\ FLt(F0, result[1].confidence)
            /\ ~some => result[1].confidence = F0
            /\ \A domain \in DOMAIN arg :
                  matched(domain) =>
                     /\ HasKey(metrics_analysis, domain)
                     /\ Get(metrics_analysis, domain).overall_classification
                           \in {NORMAL, BORDERLINE, WEAKNESS_SUSPECTED}
                     /\ FLe(FromInt(30), Get(metrics_analysis, domain).confidence)

\* a call whose ROM, balance and symmetry names match nothing and whose
\* gait names match has returned Normal with confidence 100.0
C26_Witness ==
    /\ pc = "done"
    /\ rom_data = Some(<<<<Chars("grip_strength"), FromInt(30)>>>>)
    /\ balance_data = Some(<<<<Chars("stability"), FromInt(35)>>>>)
    /\ symmetry_data = Some(<<<<Chars("posture"), FromInt(5)>>>>)
    /\ HasKey(metrics_analysis, "gait")
    /\ Len(Get(metrics_analysis, "gait").individual_results) = 2
    /\ Get(metrics_analysis, "rom").overall_classification = INSUFFICIENT_DATA
    /\ result[1].classification = NORMAL
    /\ result[1].confidence = F100

\* C27: when exactly one supplied domain is classified, the overall
\* classification is that domain's and the overall confidence is 100.0,
\* whatever the domain's own confidence.  More generally an aggregation
\* whose entries all have one classification returns it with confidence
\* 100: a domain whose matched metrics all classify alike has confidence
\* 100.0 and not the 95, 80, 70 or 85 of its metrics.
C27_UnanimousIsFull ==
    pc = "done" =>
        LET alike(seq, class(_)) ==
                /\ seq # <<>>
                /\ \A i \in 1..Len(seq) : class(seq[i]) = class(seq[1])
            vote(pair) == pair[1]
            recorded(item) == item[2].classification
        IN  /\ Len(all_classifications) = 1 =>
                  /\ result[1].classification = all_classifications[1][1]
                  /\ result[1].confidence = F100
            /\ alike(all_classifications, vote) =>
                  /\ result[1].classification = all_classifications[1][1]
                  /\ result[1].confidence = F100
            /\ \A k \in 1..Len(metrics_analysis) :
                  LET analysis == metrics_analysis[k][2]
                  IN  alike(analysis.individual_results, recorded) =>
                         /\ analysis.overall_classification
                               = analysis.individual_results[1][2].classification
                         /\ analysis.confidence = F100
                         /\ \A i \in 1..Len(analysis.individual_results) :
                               FLt(analysis.individual_results[i][2].confidence,
                                   analysis.confidence)

\* a call with ROM data only has returned Weakness suspected with
\* confidence 100.0, the ROM domain being Weakness suspected with
\* confidence 30.9
C27_Witness ==
    /\ pc = "done"
    /\ Keys(metrics_analysis) = <<"rom">>
    /\ all_classifications = << <<WEAKNESS_SUSPECTED, Dec(309, 10)>> >>
    /\ result[1].classification = WEAKNESS_SUSPECTED
    /\ result[1].confidence = F100

\* C28: an overall classification of Borderline or Weakness suspected
\* always comes with a finding: the flags of the result are not empty and
\* each of them has one of the words the Borderline branch looks for; a
\* Borderline result has at least 4 recommendations, the fourth a bullet,
\* and a Weakness-suspected result at least 5, the fifth the bullet of the
\* first flag.
C28_AbnormalHasFinding ==
    (/\ pc = "done"
     /\ result[1].classification \in {BORDERLINE, WEAKNESS_SUSPECTED}) =>
        LET flags == result[1].flags
            list == result[1].recommendations
            scanned(flag) ==
                \/ Contains(Chars("ROM"), flag)
                \/ Contains(Chars("range"), lower(flag))
                \/ Contains(Chars("balance"), lower(flag))
                \/ Contains(Chars("symmetry"), lower(flag))
                \/ Contains(Chars("gait"), lower(flag))
        IN  /\ flags # <<>>
            /\ \A i \in 1..Len(flags) : scanned(flags[i])
            /\ \E k \in 1..Len(metrics_analysis) :
                  /\ metrics_analysis[k][2].overall_classification
                        = result[1].classification
                  /\ metrics_analysis[k][2].flags # <<>>
            /\ result[1].classification = BORDERLINE =>
                  /\ Len(list) >= 4
                  /\ SubSeq(list[4], 1, 4) = Chars("  - ")
            /\ result[1].classification = WEAKNESS_SUSPECTED =>
                  /\ Len(list) >= 5
                  /\ list[5] = Chars("  - ") \o flags[1]

\* a call with the ROM mapping {knee_extension: 6} alone has returned
\* Borderline with its one flag and the stretching bullet as fourth line
C28_Witness ==
    /\ pc = "done"
    /\ Keys(metrics_analysis) = <<"rom">>
    /\ result[1].classification = BORDERLINE
    /\ result[1].flags
          = << Chars("Borderline ROM in knee_extension: 6.0") \o Degree >>
    /\ Len(result[1].recommendations) = 4
    /\ result[1].recommendations[4]
          = Chars("  - Stretching and flexibility exercises")

\* C30: a domain enters the cross-domain vote with the proportion that won
\* it as weight, so a Weakness-suspected domain does not make the overall
\* result abnormal.  The call with ROM {shoulder_flexion: 165,
\* elbow_flexion: 100, hip_flexion: 120} and three Normal balance metrics
\* has a ROM domain that is Weakness suspected with confidence 30.9 and a
\* balance domain that is Normal with 100.0, and is Normal overall, with
\* 76.4, or 86.6 with Normal symmetry data as well.  Whenever the overall
\* result is Normal while a domain is Weakness suspected, the flags of that
\* domain are in the flags of the result, and the recommendations are the
\* three of a Normal result, none of which holds a flag.
C30_WeaknessDomainOutvoted ==
    pc = "done" =>
        LET weak == { k \in 1..Len(metrics_analysis) :
                        metrics_analysis[k][2].overall_classification
                           = WEAKNESS_SUSPECTED }
            flags == result[1].flags
            list == result[1].recommendations
            scenario ==
                /\ rom_data = Some(<< <<Chars("shoulder_flexion"), FromInt(165)>>,
                                      <<Chars("elbow_flexion"), FromInt(100)>>,
                                      <<Chars("hip_flexion"), FromInt(120)>> >>)
                /\ balance_data
                      = Some(<< <<Chars("stability_score"), FromInt(75)>>,
                                <<Chars("single_leg_stance_time"), Dec(125, 10)>>,
                                <<Chars("sway_magnitude"), Dec(11, 1000)>> >>)
                /\ gait_data = None
        IN  /\ (result[1].classification = NORMAL /\ weak # {}) =>
                  /\ \A k \in weak :
                        /\ metrics_analysis[k][2].flags # <<>>
                        /\ \A i \in 1..Len(metrics_analysis[k][2].flags) :
                              \E j \in 1..Len(flags) :
                                 flags[j] = metrics_analysis[k][2].flags[i]
                  /\ list = NormalRecommendations
                  /\ \A i \in 1..Len(list) : \A j \in 1..Len(flags) :
                        ~Contains(flags[j], list[i])
            /\ (scenario /\ symmetry_data = None) =>
                  /\ Get(metrics_analysis, "rom").overall_classification
                        = WEAKNESS_SUSPECTED
                  /\ Get(metrics_analysis, "rom").confidence = Dec(309, 10)
                  /\ Get(metrics_analysis, "balance").overall_classification
                        = NORMAL
                  /\ Get(metrics_analysis, "balance").confidence = F100
                  /\ result[1].classification = NORMAL
                  /\ result[1].confidence = Dec(764, 10)
                  /\ Len(flags) = 1
            /\ (/\ scenario
                /\ symmetry_data # None
                /\ HasKey(metrics_analysis, "symmetry")
                /\ Get(metrics_analysis, "symmetry").overall_classification
                      = NORMAL) =>
                  /\ Get(metrics_analysis, "rom").overall_classification
                        = WEAKNESS_SUSPECTED
                  /\ result[1].classification = NORMAL
                  /\ result[1].confidence = Dec(866, 10)

\* the call of the scenario at age 9, with Normal symmetry data as well,
\* has returned Normal with the ROM flag among its flags
C30_Witness ==
    /\ pc = "done"
    /\ age = Some(9)
    /\ Keys(metrics_analysis) = <<"rom", "balance", "symmetry">>
    /\ Get(metrics_analysis, "rom").overall_classification = WEAKNESS_SUSPECTED
    /\ Get(metrics_analysis, "balance").overall_classification = NORMAL
    /\ Get(metrics_analysis, "symmetry").overall_classification = NORMAL
    /\ result[1].classification = NORMAL
    /\ result[1].confidence = Dec(866, 10)
    /\ result[1].flags
          = << Chars("Limited ROM in elbow_flexion: 100.0") \o Degree
               \o Chars(" (normal: 133-160") \o Degree \o Chars(")") >>
    /\ Len(result[1].recommendations) = 3

\* C11: the call with ROM {shoulder_flexion: 165} and age 9, and no other
\* domain, resolves age group "8-10"; the metric is recorded as (Normal,
\* 95.0) against the range 150-180 with mean 168, its z-score being
\* (165 - 168) / 9; the ROM domain is Normal, the overall classification is
\* Normal and there are no flags.
C11_ScenarioA ==
    LET empty(data) == data = None \/ data = Some(<<>>)
        rom == Get(result[1].metrics_analysis, "rom")
        metric == Get(rom.individual_results, Chars("shoulder_flexion"))
    IN  (/\ pc = "done"
         /\ rom_data = Some(<< <<Chars("shoulder_flexion"), FromInt(165)>> >>)
         /\ age = Some(9)
         /\ empty(balance_data) /\ empty(symmetry_data) /\ empty(gait_data))
        => /\ result[1].age_group = "8-10"
           /\ rom.age_group = "8-10"
           /\ Keys(rom.individual_results) = <<Chars("shoulder_flexion")>>
           /\ metric.classification = NORMAL
           /\ metric.confidence = F95
           /\ metric.normal_range = Chars("150-180") \o Degree
           /\ metric.mean = FromInt(168)
           /\ metric.z_score = FDiv(FSub(FromInt(165), FromInt(168)), FromInt(9))
           /\ FLe(FAbs(metric.z_score), F1)
           /\ rom.overall_classification = NORMAL
           /\ rom.flags = <<>>
           /\ result[1].classification = NORMAL
           /\ result[1].flags = <<>>

\* the call of scenario A has returned
C11_Witness ==
    /\ pc = "done"
    /\ rom_data = Some(<< <<Chars("shoulder_flexion"), FromInt(165)>> >>)
    /\ age = Some(9)
    /\ balance_data = None /\ symmetry_data = None /\ gait_data = None
    /\ result[1].classification = NORMAL
    /\ Keys(result[1].metrics_analysis) = <<"rom">>


-----------------------------------------------------------------------------
(* Properties of the composite result.                                      *)

\* C12: when the overall classification is Weakness suspected, the
\* recommendations are four fixed sentences followed by one line "  - flag"
\* for each of the first min(5, n) of the n flags, in their order and with
\* their text as it is: never more than 5 such lines and 9 lines in all,
\* while the flags of the result are all n flags of the domains.
C12_WeaknessTopFive ==
    (pc = "done" /\ result[1].classification = WEAKNESS_SUSPECTED) =>
        LET flags == result[1].flags
            list == result[1].recommendations
            n == Len(flags)
            shown == IF n < 5 THEN n ELSE 5
            RECURSIVE count(_)
            count(k) == IF k > Len(metrics_analysis) THEN 0
                        ELSE Len(metrics_analysis[k][2].flags) + count(k + 1)
        IN  /\ Len(list) = 4 + shown
            /\ Len(list) <= 9
            /\ SubSeq(list, 1, 4) =
                  << WarningSign
                     \o Chars(" Movement patterns suggest possible motor weakness."),
                     Chars("Professional evaluation by pediatric physical therapist recommended."),
                     Chars("Comprehensive clinical assessment advised within 2-4 weeks."),
                     Chars("Specific areas of concern:") >>
            /\ \A i \in 1..shown : list[4 + i] = Chars("  - ") \o flags[i]
            /\ n = count(1)

\* the session of test_weakness_case has returned: 11 flags, 5 of them in
\* the 9 recommendations
C12_Witness ==
    /\ pc = "done"
    /\ age = Some(7)
    /\ gait_data # None
    /\ result[1].classification = WEAKNESS_SUSPECTED
    /\ Len(result[1].flags) = 11
    /\ Len(result[1].recommendations) = 9

\* C19: the session of test_borderline_case (age 8, three ROM values, two
\* balance values and two symmetry values, each annotated Borderline) is
\* classified Borderline overall.
C19_BorderlineSession ==
    (/\ pc = "done"
     /\ age = Some(8)
     /\ rom_data = Some(<< <<Chars("shoulder_flexion"), FromInt(148)>>,
                           <<Chars("elbow_flexion"), FromInt(133)>>,
                           <<Chars("knee_flexion"), FromInt(123)>> >>)
     /\ balance_data = Some(<< <<Chars("stability_score"), FromInt(55)>>,
                               <<Chars("single_leg_stance_time"), FromInt(6)>> >>)
     /\ symmetry_data = Some(<< <<Chars("shoulder_symmetry"), Dec(95, 10)>>,
                                <<Chars("knee_symmetry"), Dec(85, 10)>> >>)
     /\ gait_data = None)
    => result[1].classification = BORDERLINE

\* C20: the flags of the composite result are the flags of the domains,
\* rom, balance, symmetry, gait in this order, as the domains wrote them;
\* its z_scores have, for every domain d and every metric m the domain
\* recorded, the key "d_m" with the z-score of m, and as many entries as
\* the domains' z_scores together.
C20_DomainOutputKept ==
    pc = "done" =>
        LET order == <<"rom", "balance", "symmetry", "gait">>
            analyses == result[1].metrics_analysis
            RECURSIVE flagsOf(_), sizeOf(_)
            flagsOf(i) ==
                IF i > 4 THEN <<>>
                ELSE (IF HasKey(analyses, order[i])
                      THEN Get(analyses, order[i]).flags ELSE <<>>)
                     \o flagsOf(i + 1)
            sizeOf(i) ==
                IF i > 4 THEN 0
                ELSE (IF HasKey(analyses, order[i])
                      THEN Len(Get(analyses, order[i]).z_scores) ELSE 0)
                     + sizeOf(i + 1)
        IN  /\ result[1].flags = flagsOf(1)
            /\ Len(result[1].z_scores) = sizeOf(1)
            /\ \A i \in 1..4 :
                  HasKey(analyses, order[i]) =>
                      LET analysis == Get(analyses, order[i])
                      IN  /\ Keys(analysis.z_scores)
                                 = Keys(analysis.individual_results)
                          /\ \A k \in 1..Len(analysis.z_scores) :
                                LET key == Chars(order[i]) \o Chars("_")
                                               \o analysis.z_scores[k][1]
                                IN  /\ HasKey(result[1].z_scores, key)
                                    /\ Get(result[1].z_scores, key)
                                           = analysis.z_scores[k][2]
                                    /\ analysis.z_scores[k][2]
                                           = Get(analysis.individual_results,
                                                 analysis.z_scores[k][1]).z_score

\* a call with all four domains has returned: seven flags, and eight
\* z-scores under the keys of the four domains
C20_Witness ==
    /\ pc = "done"
    /\ Keys(result[1].metrics_analysis) = <<"rom", "balance", "symmetry", "gait">>
    /\ Len(result[1].flags) = 7
    /\ Len(result[1].z_scores) = 8
    /\ HasKey(result[1].z_scores, Chars("rom_shoulder_flexion"))
    /\ HasKey(result[1].z_scores, Chars("gait_step_length"))

-----------------------------------------------------------------------------
(* Properties of generate_recommendations, checked on SpecRecommend.        *)

\* C13: for Borderline the list is the three fixed sentences followed by
\* some of the four bullets (stretching, balance training, bilateral
\* strengthening, gait training), each at most once and in that order,
\* however many flags match a bullet; its length is between 3 and 7.
C13_BorderlineBullets ==
    (gr_result # None /\ gr_classification = BORDERLINE) =>
        LET bullets ==
                << Chars("  - Stretching and flexibility exercises"),
                   Chars("  - Balance training (single-leg stance, proprioception exercises)"),
                   Chars("  - Bilateral strengthening exercises"),
                   Chars("  - Gait training and walking exercises") >>
            list == gr_result[1]
        IN  /\ Len(list) >= 3 /\ Len(list) <= 7
            /\ SubSeq(list, 1, 3) =
                  << Chars("Some movement patterns show borderline values."),
                     Chars("Follow-up assessment in 3-6 months recommended."),
                     Chars("Consider targeted exercises for areas of concern:") >>
            /\ \E chosen \in SUBSET (1..4) :
                  LET order == SelectSeq(<<1, 2, 3, 4>>, LAMBDA i : i \in chosen)
                  IN  SubSeq(list, 4, Len(list))
                          = [k \in 1..Len(order) |-> bullets[order[k]]]

\* a Borderline call with three flags that all name the balance, one of
\* them the gait too, has returned the balance bullet once and the gait
\* bullet
C13_Witness ==
    /\ gr_result # None
    /\ gr_classification = BORDERLINE
    /\ gr_flags = << Chars("Borderline balance: stability_score = 35.0"),
                     Chars("BALANCE and GAIT"),
                     Chars("Borderline balance: stability_score = 35.0") >>
    /\ Len(gr_result[1]) = 5

\* C14: for Borderline each bullet is there exactly when some flag holds its
\* word in any letter case: stretching for "rom" or "range", balance
\* training for "balance", bilateral strengthening for "asymmetry" or
\* "symmetry", gait training for "gait".
C14_CaseInsensitive ==
    (gr_result # None /\ gr_classification = BORDERLINE) =>
        LET some(word) == \E i \in 1..Len(gr_flags) :
                              Contains(Chars(word), lower(gr_flags[i]))
            has(bullet) == \E k \in 1..Len(gr_result[1]) :
                               gr_result[1][k] = Chars(bullet)
        IN  /\ has("  - Stretching and flexibility exercises")
                  <=> (some("rom") \/ some("range"))
            /\ has("  - Balance training (single-leg stance, proprioception exercises)")
                  <=> some("balance")
            /\ has("  - Bilateral strengthening exercises")
                  <=> (some("asymmetry") \/ some("symmetry"))
            /\ has("  - Gait training and walking exercises") <=> some("gait")

\* C15: for Normal the list is the three fixed sentences, whatever the flags
\* and the domain results are: every two Normal calls return the same list.
C15_NormalIgnoresFlags ==
    (gr_result # None /\ gr_classification = NORMAL) =>
        gr_result[1] =
            << Chars("Movement patterns are within normal limits for age group."),
               Chars("Continue regular physical activity and sports participation."),
               Chars("Annual screening recommended for monitoring development.") >>

\* a Normal call with three flags and domain results has returned
C15_Witness ==
    /\ gr_result # None
    /\ gr_classification = NORMAL
    /\ Len(gr_flags) = 3
    /\ gr_metrics # <<>>
    /\ Len(gr_result[1]) = 3

\* C16: for Insufficient data the list is empty, whatever the flags and the
\* domain results are.
C16_InsufficientEmpty ==
    (gr_result # None /\ gr_classification = INSUFFICIENT_DATA) =>
        gr_result[1] = <<>>

\* an Insufficient-data call with flags and domain results has returned
C16_Witness ==
    /\ gr_result # None
    /\ gr_classification = INSUFFICIENT_DATA
    /\ gr_flags # <<>>
    /\ gr_metrics # <<>>
    /\ gr_result = Some(<<>>)

-----------------------------------------------------------------------------
(* Properties of concurrent calls, checked on SpecConcurrent.               *)

\* C18: in every interleaving of the blocks of concurrent calls the
\* reference tables stay as they were, and a call that has returned has
\* returned what the same call returns when it runs alone.
C18_CallsIndependent ==
    /\ tables = ReferenceTables
    /\ \A c \in DOMAIN calls :
          calls[c].pc = "done" =>
              calls[c].result
                  = Run([calls[c] EXCEPT !.pc = "call", !.result = None]).result

\* two calls with different arguments have both returned, with different
\* results
C18_Witness ==
    /\ DOMAIN calls = 1..MaxCalls
    /\ \A c \in DOMAIN calls : calls[c].pc = "done"
    /\ calls[1].rom_data # calls[2].rom_data
    /\ calls[1].result[1].classification = NORMAL
    /\ calls[2].result[1].classification = WEAKNESS_SUSPECTED
    /\ calls[2].result[1].flags # <<>>

=============================================================================
